---- MODULE Spec2Model ----
(***************************************************************************)
(* Reasoning engine of Enviro-Comply (agents/reasoning.py):                *)
(* ReasoningStep / ReasoningChain, ChainOfThoughtReasoner and its          *)
(* reasoning operations, and ConfidenceCalibrator.                         *)
(*                                                                         *)
(* Numbers.  Confidences are Python floats.  Every confidence the code     *)
(* computes is a multiple of 1/300 (thirds of a keyword ratio, hundredths  *)
(* of fixed constants, thirds of sums of hundredths), so a confidence c is *)
(* held as the integer 300*c: Unit stands for 1.0.  The comparisons of the *)
(* code never sit on a rounding boundary for these values, so the exact    *)
(* arithmetic decides them as the float arithmetic does.                   *)
(*                                                                         *)
(* Optional values: None is the empty tuple, a set value v is <<v>>.       *)
(*                                                                         *)
(* Time.  datetime.utcnow() reads the variable now, a clock in whole hours *)
(* since the epoch 2026-01-01T00:00:00 that advances by Tick.              *)
(***************************************************************************)
EXTENDS Integers, Sequences, FiniteSets, TLC

VARIABLES
    chains,   \* ChainOfThoughtReasoner.chains: the chains started, in order
    now,      \* the clock datetime.utcnow() reads
    addCalls, \* addCalls[i]: the add_step calls made so far on the i-th chain
    last,     \* the caller's record of the latest call: arguments and result
    predictions,        \* ConfidenceCalibrator.predictions
    calibration_factor, \* ConfidenceCalibrator.calibration_factor
    threads,  \* the callers that share one chain: where each is in add_step
    context,  \* an AgentContext: its five lists
    crew      \* a run of EnviroComplyCrew.run_full_analysis: position and results

vars == <<chains, now, addCalls, last, predictions, calibration_factor,
          threads, context, crew>>

\* the variables of the reasoner and its chains, and those of the calibrator
reasoner == <<chains, now, addCalls>>
calibrator == <<predictions, calibration_factor>>
\* the variables of the callers, of the shared context and of the crew
outside == <<threads, context, crew>>

-----------------------------------------------------------------------------
(* Bounds of the model *)

MaxChains == 1      \* chains started by direct start_chain calls
MaxSteps == 2       \* direct add_step calls per chain
MaxTime == 1        \* last value of the clock

-----------------------------------------------------------------------------
(* Values *)

Unit == 300

None == <<>>
Some(v) == <<v>>

\* class ReasoningType
OBSERVATION == "observation"
ANALYSIS == "analysis"
INFERENCE == "inference"
DECISION == "decision"
VALIDATION == "validation"
ReasoningType == {OBSERVATION, ANALYSIS, INFERENCE, DECISION, VALIDATION}

-----------------------------------------------------------------------------
(* ReasoningStep, ReasoningChain *)

\* ReasoningStep(...): the dataclass constructor; timestamp defaults to utcnow()
ReasoningStep(step_number, step_type, content, confidence, evidence, t) ==
    [step_number |-> step_number,
     step_type   |-> step_type,
     content     |-> content,
     confidence  |-> confidence,
     evidence    |-> evidence,
     timestamp   |-> t]

\* ReasoningChain(task_id, agent_type, question): the dataclass constructor
ReasoningChain_Certain(task_id, agent_type, question, t) ==
    [task_id          |-> task_id,
     agent_type       |-> agent_type,
     question         |-> question,
     steps            |-> <<>>,
     final_answer     |-> None,
     final_confidence |-> Unit,
     started_at       |-> t,
     completed_at     |-> None]
ReasoningChain(task_id, agent_type, question, t) ==
    [task_id          |-> task_id,
     agent_type       |-> agent_type,
     question         |-> question,
     steps            |-> <<>>,
     final_answer     |-> None,
     final_confidence |-> 0,
     started_at       |-> t,
     completed_at     |-> None]

\* the step number add_step gives the step it creates
BadStepNumber(chain) == Len(chain.steps)
NextStepNumber(chain) == Len(chain.steps) + 1

\* ReasoningChain.add_step: the chain after the call (evidence None becomes [])
add_step(chain, step_type, content, confidence, evidence, t) ==
    [chain EXCEPT !.steps =
        Append(@, ReasoningStep(NextStepNumber(chain), step_type, content, confidence,
                                IF evidence = None THEN <<>> ELSE evidence[1], t))]

complete_NoTimestamp(chain, answer, confidence, t) ==
    [chain EXCEPT !.final_answer = Some(answer), !.final_confidence = confidence]

complete_DropsSteps(chain, answer, confidence, t) ==
    [chain EXCEPT !.final_answer = Some(answer), !.final_confidence = confidence,
                  !.completed_at = Some(t), !.steps = <<>>]

complete_FirstWins(chain, answer, confidence, t) ==
    IF chain.completed_at # None THEN chain
    ELSE [chain EXCEPT !.final_answer = Some(answer), !.final_confidence = confidence,
                       !.completed_at = Some(t)]

\* ReasoningChain.complete: the chain after the call
complete_KeepsConfidence(chain, answer, confidence, t) ==
    [chain EXCEPT !.final_answer = Some(answer),
                  !.completed_at = Some(t)]
complete(chain, answer, confidence, t) ==
    [chain EXCEPT !.final_answer = Some(answer),
                  !.final_confidence = confidence,
                  !.completed_at = Some(t)]

\* ReasoningStep.to_dict
step_to_dict(s) ==
    [step       |-> s.step_number,
     type       |-> s.step_type,
     content    |-> s.content,
     confidence |-> s.confidence,
     evidence   |-> s.evidence,
     timestamp  |-> s.timestamp]

\* ReasoningChain.to_dict (duration in clock units)
to_dict(chain) ==
    [task_id          |-> chain.task_id,
     agent_type       |-> chain.agent_type,
     question         |-> chain.question,
     steps            |-> [k \in 1..Len(chain.steps) |-> step_to_dict(chain.steps[k])],
     final_answer     |-> chain.final_answer,
     final_confidence |-> chain.final_confidence,
     started_at       |-> chain.started_at,
     completed_at     |-> chain.completed_at,
     duration_ms      |-> IF chain.completed_at # None
                          THEN Some(chain.completed_at[1] - chain.started_at)
                          ELSE None]

-----------------------------------------------------------------------------
(* The reasoner and the direct use of a chain *)

AgentType == "gap_analyzer"

\* sample arguments of add_step, complete and start_chain
StepInputs ==
    { [step_type |-> DECISION, content |-> "decided", confidence |-> 150, evidence |-> None] }
CompleteInputs ==
    { [answer |-> "YES", confidence |-> 270], [answer |-> "NO", confidence |-> 120] }
TaskIds == {"t1"}

NoCall == [op |-> "none"]

\* no caller at work on a shared chain, no AgentContext built, no analysis run
NoThreads == [serialized |-> TRUE, lock |-> None, callers |-> <<>>]
NoContext == <<>>
NoRun == [pc |-> "idle"]

\* ChainOfThoughtReasoner.__init__ and ConfidenceCalibrator.__init__, before
\* any call
Init ==
    /\ chains = <<>>
    /\ now = 0
    /\ addCalls = <<>>
    /\ last = NoCall
    /\ predictions = <<>>
    /\ calibration_factor = [num |-> 1, den |-> 1]
    /\ threads = NoThreads
    /\ context = NoContext
    /\ crew = NoRun

\* the clock advances
Tick ==
    /\ now < MaxTime
    /\ now' = now + 1
    /\ UNCHANGED <<chains, addCalls, last, calibrator, outside>>

\* a variant that puts the new chain at the head of the list
start_chain_AtHead(task_id, question) ==
    /\ chains' = << ReasoningChain(task_id, AgentType, question, now) >> \o chains
    /\ addCalls' = << 0 >> \o addCalls
    /\ last' = [op |-> "start_chain", chain |-> 1]
    /\ UNCHANGED <<now, calibrator, outside>>

\* ChainOfThoughtReasoner.start_chain
start_chain(task_id, question) ==
    /\ chains' = Append(chains, ReasoningChain(task_id, AgentType, question, now))
    /\ addCalls' = Append(addCalls, 0)
    /\ last' = [op |-> "start_chain", chain |-> Len(chains) + 1]
    /\ UNCHANGED <<now, calibrator, outside>>

\* a start_chain call while the list is short of MaxChains
StartChain(task_id, question) ==
    /\ Len(chains) < MaxChains
    /\ start_chain(task_id, question)

\* a direct chain.add_step(...) on the i-th chain
AddStep(i, in) ==
    /\ Len(chains[i].steps) < MaxSteps
    /\ chains' = [chains EXCEPT ![i] =
                    add_step(@, in.step_type, in.content, in.confidence, in.evidence, now)]
    /\ addCalls' = [addCalls EXCEPT ![i] = @ + 1]
    /\ last' = [op |-> "add_step", chain |-> i]
    /\ UNCHANGED <<now, calibrator, outside>>

\* a direct chain.complete(...) on the i-th chain
Complete(i, in) ==
    /\ chains' = [chains EXCEPT ![i] = complete(@, in.answer, in.confidence, now)]
    /\ last' = [op |-> "complete", chain |-> i, answer |-> in.answer,
                confidence |-> in.confidence, at |-> now,
                prev |-> chains[i].final_answer]
    /\ UNCHANGED <<now, addCalls, calibrator, outside>>

Next ==
    \/ Tick
    \/ \E task_id \in TaskIds : StartChain(task_id, "q?")
    \/ \E i \in 1..Len(chains), in \in StepInputs : AddStep(i, in)
    \/ \E i \in 1..Len(chains), in \in CompleteInputs : Complete(i, in)

Spec == Init /\ [][Next]_vars

-----------------------------------------------------------------------------
(* Properties of a chain under direct calls (Spec) *)

Sealed(chain) == chain.completed_at # None
IsPrefix(s, t) == Len(s) <= Len(t) /\ SubSeq(t, 1, Len(s)) = s

\* C1: after any serial sequence of add_step calls on a chain, the steps it holds
\* carry the step numbers 1..n in creation order, and to_dict()["steps"] has one
\* entry per add_step call made, the k-th entry numbered k.
C1_StepNumbersDense ==
    \A i \in 1..Len(chains) :
        /\ \A k \in 1..Len(chains[i].steps) : chains[i].steps[k].step_number = k
        /\ Len(to_dict(chains[i]).steps) = addCalls[i]
        /\ \A k \in 1..addCalls[i] : to_dict(chains[i]).steps[k].step = k

C1_Witness ==
    \E i \in 1..Len(chains) :
        /\ addCalls[i] >= 2
        /\ chains[i].steps[1].timestamp < chains[i].steps[2].timestamp
        /\ chains[i].steps[2].step_number = 2

\* C2: in every reachable state of a chain, final_answer and completed_at are
\* both unset or both set.
C2_CompletionAtomic ==
    \A i \in 1..Len(chains) :
        (chains[i].final_answer = None) <=> (chains[i].completed_at = None)

C2_Witness ==
    /\ last.op = "add_step"
    /\ chains[last.chain].final_answer # None
    /\ chains[last.chain].completed_at # None

\* C3 as stated: once complete has been called on a chain, its step list never
\* changes again.
C3_SealedStepsFrozen ==
    [][\A i \in 1..Len(chains) :
          Sealed(chains[i]) => chains'[i].steps = chains[i].steps]_vars

\* C3 amended: a sealed chain stays sealed and complete leaves the step list as
\* it is, but add_step has no completion guard: on a sealed chain it still
\* appends one step, numbered len+1, after the steps already there, which are
\* never altered.
C3_SealedAppendOnly ==
    [][\A i \in 1..Len(chains) :
          /\ Sealed(chains[i]) => Sealed(chains'[i])
          /\ IsPrefix(chains[i].steps, chains'[i].steps)
          /\ \A in \in CompleteInputs :
                Complete(i, in) => chains'[i].steps = chains[i].steps
          /\ \A in \in StepInputs :
                AddStep(i, in) /\ Sealed(chains[i]) =>
                    /\ Len(chains'[i].steps) = Len(chains[i].steps) + 1
                    /\ chains'[i].steps[Len(chains'[i].steps)].step_number
                          = Len(chains[i].steps) + 1]_vars

\* a step stamped after the chain's completion time: it was appended to a sealed chain
C3_Witness ==
    \E i \in 1..Len(chains) :
        /\ Sealed(chains[i])
        /\ \E k \in 1..Len(chains[i].steps) :
              chains[i].steps[k].timestamp > chains[i].completed_at[1]

\* C4: a second complete on a chain raises nothing and wins: the chain holds the
\* answer, confidence and time of the latest complete call, and a complete call
\* leaves the steps unchanged.
C4_SecondCompleteWins ==
    /\ [](last.op = "complete" =>
            /\ chains[last.chain].final_answer = Some(last.answer)
            /\ chains[last.chain].final_confidence = last.confidence
            /\ chains[last.chain].completed_at = Some(last.at))
    /\ [][\A i \in 1..Len(chains), in \in CompleteInputs :
            Complete(i, in) => chains'[i].steps = chains[i].steps]_vars

C4_Witness ==
    /\ last.op = "complete"
    /\ last.prev # None
    /\ last.prev # Some(last.answer)
    /\ last.at > 0
    /\ Len(chains[last.chain].steps) > 0
    /\ chains[last.chain].final_answer = Some(last.answer)

-----------------------------------------------------------------------------
(* Strings and dictionaries, as the reasoning operations use them *)

MaxCalls == 2       \* calls of a reasoning operation on one reasoner

Min(a, b) == IF a <= b THEN a ELSE b

\* dict.get(key, default)
Get(d, key, default) == IF key \in DOMAIN d THEN d[key] ELSE default

\* the Python expression `k in t` on strings: k occurs in t as a substring
Contains(k, t) ==
    \E p \in 1..(Len(t) - Len(k) + 1) : SubSeq(t, p, p + Len(k) - 1) = k

UpperCase == "ABCDEFGHIJKLMNOPQRSTUVWXYZ"
LowerCase == "abcdefghijklmnopqrstuvwxyz"

\* str.lower() and str.upper() of one character
ToLower ==
    [c \in {SubSeq(UpperCase, p, p) : p \in 1..26} |->
        LET p == CHOOSE q \in 1..26 : SubSeq(UpperCase, q, q) = c IN SubSeq(LowerCase, p, p)]
ToUpper ==
    [c \in {SubSeq(LowerCase, p, p) : p \in 1..26} |->
        LET p == CHOOSE q \in 1..26 : SubSeq(LowerCase, q, q) = c IN SubSeq(UpperCase, p, p)]
lower_char(c) == IF c \in DOMAIN ToLower THEN ToLower[c] ELSE c
upper_char(c) == IF c \in DOMAIN ToUpper THEN ToUpper[c] ELSE c

\* str.lower(), str.upper()
RECURSIVE lower(_)
lower(s) == IF Len(s) = 0 THEN "" ELSE lower_char(SubSeq(s, 1, 1)) \o lower(SubSeq(s, 2, Len(s)))
RECURSIVE upper(_)
upper(s) == IF Len(s) = 0 THEN "" ELSE upper_char(SubSeq(s, 1, 1)) \o upper(SubSeq(s, 2, Len(s)))

\* the slice s[:n]
Take(s, n) == SubSeq(s, 1, Min(n, Len(s)))

\* sep.join(strings)
RECURSIVE Join(_, _)
Join(strings, sep) ==
    IF Len(strings) = 0 THEN ""
    ELSE IF Len(strings) = 1 THEN strings[1]
    ELSE strings[1] \o sep \o Join(Tail(strings), sep)

\* f"{c:.2f}" of the confidence c (held as 300*c), for c >= 0: the nearest
\* number of hundredths (c is never half-way between two)
Fmt2f(c) ==
    LET h == (2 * c + 3) \div 6
    IN  ToString(h \div 100) \o "." \o (IF h % 100 < 10 THEN "0" ELSE "") \o ToString(h % 100)

\* the chain after a series of add_step calls, one per entry of `steps`
RECURSIVE add_steps(_, _, _)
add_steps(chain, steps, t) ==
    IF steps = <<>> THEN chain
    ELSE add_steps(add_step(chain, steps[1].step_type, steps[1].content,
                            steps[1].confidence, steps[1].evidence, t),
                   Tail(steps), t)

StepArgs(step_type, content, confidence, evidence) ==
    [step_type |-> step_type, content |-> content, confidence |-> confidence,
     evidence |-> Some(evidence)]

-----------------------------------------------------------------------------
(* ChainOfThoughtReasoner.reason_about_regulation_relevance *)

og_keywords ==
    << "oil", "gas", "petroleum", "natural gas", "crude oil",
       "wellsite", "wellhead", "compressor", "gathering",
       "processing", "transmission", "storage tank", "pneumatic",
       "fugitive emissions", "ldar", "methane", "voc" >>

\* found_keywords = [kw for kw in og_keywords if kw in text_to_search]
found_keywords(text) == SelectSeq(og_keywords, LAMBDA kw : Contains(kw, text))

\* keyword_confidence = min(len(found_keywords) / 3, 1.0)
keyword_confidence_Unsaturated(n) == (n * Unit) \div 3
keyword_confidence(n) == Min((n * Unit) \div 3, Unit)

\* a variant that tests the markers in the reverse order
cfr_relevance_LastMarker(citation) ==
    IF Contains("40 CFR 98", citation) THEN (6 * Unit) \div 10
    ELSE IF Contains("40 CFR 63", citation) THEN (7 * Unit) \div 10
    ELSE IF Contains("40 CFR 60", citation) THEN (8 * Unit) \div 10
    ELSE 0

\* cfr_relevance: the if / elif / elif on the citation
cfr_relevance(citation) ==
    IF Contains("40 CFR 60", citation) THEN (8 * Unit) \div 10
    ELSE IF Contains("40 CFR 63", citation) THEN (7 * Unit) \div 10
    ELSE IF Contains("40 CFR 98", citation) THEN (6 * Unit) \div 10
    ELSE 0

cfr_evidence(citation) ==
    IF Contains("40 CFR 60", citation)
    THEN <<"40 CFR 60 (NSPS) - includes O&G subparts OOOO, OOOOa, OOOOb">>
    ELSE IF Contains("40 CFR 63", citation)
    THEN <<"40 CFR 63 (NESHAP) - includes O&G subpart HH">>
    ELSE IF Contains("40 CFR 98", citation)
    THEN <<"40 CFR 98 (GHG Reporting) - includes O&G subpart W">>
    ELSE <<>>

\* combined_score = (keyword_confidence * 0.6) + (cfr_relevance * 0.4)
combined_score_EvenWeights(kc, cfr) == (kc * 5 + cfr * 5) \div 10
combined_score(kc, cfr) == (kc * 6 + cfr * 4) \div 10

\* is_relevant = combined_score > 0.3
is_relevant(score) == 10 * score > 3 * Unit

\* the guard of the validation step: is_relevant and combined_score < 0.5
needs_validation_AnyLowScore(score) == 10 * score < 5 * Unit
needs_validation(score) == is_relevant(score) /\ 10 * score < 5 * Unit

\* the words of the inference step
relevance_level(score) ==
    IF 10 * score > 6 * Unit THEN "HIGH"
    ELSE IF 10 * score > 3 * Unit THEN "MODERATE"
    ELSE "LOW"

\* the add_step calls of the operation, in the order the code makes them
relevance_steps(regulation) ==
    LET title == lower(Get(regulation, "title", ""))
        description == lower(Get(regulation, "description", ""))
        citation == Get(regulation, "citation", "")
        found == found_keywords(title \o " " \o description)
        kc == keyword_confidence(Len(found))
        cfr == cfr_relevance(citation)
        score == combined_score(kc, cfr)
    IN  << StepArgs(OBSERVATION,
                    "Examining regulation: " \o citation \o " - "
                        \o Get(regulation, "title", "Unknown"),
                    Unit,
                    << "Title: " \o Take(title, 100) \o "...", "Citation: " \o citation >>),
           StepArgs(ANALYSIS,
                    "Searched for " \o ToString(Len(og_keywords))
                        \o " O&G keywords in regulation text",
                    kc,
                    IF found # <<>>
                    THEN << "Found keywords: " \o Join(Take(found, 5), ", ") >>
                    ELSE << "No keywords found" >>) >>
        \o (IF cfr > 0
            THEN << StepArgs(ANALYSIS,
                             "CFR citation analysis indicates potential O&G applicability",
                             cfr, cfr_evidence(citation)) >>
            ELSE <<>>)
        \o << StepArgs(INFERENCE,
                       "Combined analysis suggests " \o relevance_level(score) \o " relevance",
                       score,
                       << "Keyword score: " \o Fmt2f(kc),
                          "CFR relevance: " \o Fmt2f(cfr),
                          "Combined: " \o Fmt2f(score) >>) >>
        \o (IF needs_validation(score)
            THEN << StepArgs(VALIDATION,
                             "Low confidence relevance - recommend manual review",
                             score,
                             << "Borderline score warrants human verification" >>) >>
            ELSE <<>>)

\* the value the operation returns with the chain: (is_relevant, combined_score)
relevance_result(regulation) ==
    LET found == found_keywords(lower(Get(regulation, "title", "")) \o " "
                                \o lower(Get(regulation, "description", "")))
        score == combined_score(keyword_confidence(Len(found)),
                                cfr_relevance(Get(regulation, "citation", "")))
    IN  [is_relevant |-> is_relevant(score), combined_score |-> score]

TargetIndustry == "oil_and_gas"

\* sample regulations
RegTitles ==
    { "Recordkeeping Rule",                 \* no keyword
      "Boiler Standards",                   \* "oil" inside "boiler"
      "Methane and VOC Limits",             \* methane, voc
      "Natural Gas Processing Plants",      \* gas, natural gas, processing
      "Crude Oil Storage Tank LDAR" }       \* oil, crude oil, storage tank, ldar
RegCitations ==
    { "", "40 CFR 60 Subpart OOOOa", "40 CFR 63 Subpart HH", "40 CFR 98 Subpart W",
      "40 CFR 98 and 40 CFR 60" }
Regulations ==
    { [id |-> "r1", title |-> t, description |-> "", citation |-> c] :
        t \in RegTitles, c \in RegCitations }
    \cup { [title |-> "Pneumatic devices"],
           [id |-> "r2", citation |-> "40 CFR 60"],
           [id |-> "r3", title |-> "Recordkeeping Rule",
            description |-> "Applies to each Compressor and wellhead.",
            citation |-> "40 cfr 60"] }

\* ChainOfThoughtReasoner.reason_about_regulation_relevance(regulation)
reason_about_regulation_relevance(regulation) ==
    /\ LET steps == relevance_steps(regulation)
           result == relevance_result(regulation)
           started ==
               ReasoningChain("rel_" \o Get(regulation, "id", "unknown"), AgentType,
                              "Is '" \o Get(regulation, "title", "Unknown")
                                  \o "' relevant to " \o TargetIndustry \o "?",
                              now)
           done == complete(add_steps(started, steps, now),
                            IF result.is_relevant THEN "RELEVANT" ELSE "NOT RELEVANT",
                            result.combined_score, now)
       IN  /\ chains' = Append(chains, done)
           /\ addCalls' = Append(addCalls, Len(steps))
           /\ last' = [op |-> "relevance", chain |-> Len(chains) + 1,
                       regulation |-> regulation,
                       is_relevant |-> result.is_relevant,
                       confidence |-> result.combined_score]
    /\ UNCHANGED <<now, calibrator, outside>>

\* a relevance call while the list is short of MaxCalls
ReasonRelevance(regulation) ==
    /\ Len(chains) < MaxCalls
    /\ reason_about_regulation_relevance(regulation)

NextRelevance == \E regulation \in Regulations : ReasonRelevance(regulation)

SpecRelevance == Init /\ [][NextRelevance]_vars

-----------------------------------------------------------------------------
(* Properties of relevance reasoning (SpecRelevance) *)

\* the kinds of the steps of a chain, in order
Kinds(chain) == [k \in 1..Len(chain.steps) |-> chain.steps[k].step_type]
StepsOfKind(chain, kind) == {k \in 1..Len(chain.steps) : chain.steps[k].step_type = kind}

\* the keywords of og_keywords that occur in title + description, counted one by
\* one, and whether any of the three citation markers occurs in the citation
MatchedCount(regulation) ==
    LET text == lower(Get(regulation, "title", "")) \o " "
                    \o lower(Get(regulation, "description", ""))
    IN  Cardinality({k \in 1..Len(og_keywords) : Contains(og_keywords[k], text)})
MarkerMatched(regulation) ==
    \E m \in {"40 CFR 60", "40 CFR 63", "40 CFR 98"} :
        Contains(m, Get(regulation, "citation", ""))

\* C5: combined_score = 0.6 * keyword_confidence + 0.4 * citation_confidence with
\* keyword_confidence = min(matched / 3, 1.0) and citation_confidence the citation
\* step's confidence, 0 when no marker matched; is_relevant exactly when
\* combined_score > 0.3; no keyword and no marker give 0.0 and not relevant.
C5_CombinedScore ==
    last.op = "relevance" =>
        LET chain == chains[last.chain]
            n == MatchedCount(last.regulation)
            kc == IF n >= 3 THEN Unit ELSE (n * Unit) \div 3
            cc == IF MarkerMatched(last.regulation) THEN chain.steps[3].confidence ELSE 0
        IN  /\ 10 * last.confidence = 6 * kc + 4 * cc
            /\ chain.steps[2].confidence = kc
            /\ MarkerMatched(last.regulation) =>
                    chain.steps[3].step_type = ANALYSIS /\ cc > 0
            /\ last.is_relevant <=> (10 * last.confidence > 3 * Unit)
            /\ (n = 0 /\ ~MarkerMatched(last.regulation)) =>
                    (last.confidence = 0 /\ ~last.is_relevant)

\* both ends: a relevant regulation scored from keywords and a citation, and
\* earlier a regulation with neither
C5_Witness ==
    /\ last.op = "relevance"
    /\ MatchedCount(last.regulation) = 2
    /\ MarkerMatched(last.regulation)
    /\ last.is_relevant
    /\ Len(chains) = 2
    /\ chains[1].final_confidence = 0
    /\ chains[1].final_answer = Some("NOT RELEVANT")

\* C6 as stated: 3 or more keywords and a part-60 citation give combined_score
\* 0.68, is_relevant true and no VALIDATION step.
C6_Score068 ==
    (/\ last.op = "relevance"
     /\ MatchedCount(last.regulation) >= 3
     /\ Contains("40 CFR 60", Get(last.regulation, "citation", "")))
    => /\ 100 * last.confidence = 68 * Unit
       /\ last.is_relevant
       /\ StepsOfKind(chains[last.chain], VALIDATION) = {}

\* C6 amended: 3 or more keywords and a part-60 citation give combined_score
\* 0.92 (0.6 * 1.0 + 0.4 * 0.8), is_relevant true and no VALIDATION step.
C6_Score092 ==
    (/\ last.op = "relevance"
     /\ MatchedCount(last.regulation) >= 3
     /\ Contains("40 CFR 60", Get(last.regulation, "citation", "")))
    => /\ 100 * last.confidence = 92 * Unit
       /\ last.is_relevant
       /\ StepsOfKind(chains[last.chain], VALIDATION) = {}

C6_Witness ==
    /\ last.op = "relevance"
    /\ MatchedCount(last.regulation) = 4
    /\ Contains("40 CFR 60", Get(last.regulation, "citation", ""))
    /\ chains[last.chain].final_confidence = (92 * Unit) \div 100
    /\ Kinds(chains[last.chain]) = <<OBSERVATION, ANALYSIS, ANALYSIS, INFERENCE>>

\* C7: a VALIDATION step is appended exactly when is_relevant is true and
\* combined_score < 0.5, at most once and last; with or without it the operation
\* returns the score of the INFERENCE step and is_relevant = (that score > 0.3).
C7_ValidationIsWarning ==
    last.op = "relevance" =>
        LET chain == chains[last.chain]
            val == StepsOfKind(chain, VALIDATION)
            inf == CHOOSE k \in StepsOfKind(chain, INFERENCE) : TRUE
        IN  /\ (val # {}) <=> (last.is_relevant /\ 10 * last.confidence < 5 * Unit)
            /\ val \subseteq {Len(chain.steps)}
            /\ Cardinality(StepsOfKind(chain, INFERENCE)) = 1
            /\ last.confidence = chain.steps[inf].confidence
            /\ last.is_relevant <=> (10 * chain.steps[inf].confidence > 3 * Unit)
            /\ chain.final_answer
                  = Some(IF last.is_relevant THEN "RELEVANT" ELSE "NOT RELEVANT")

C7_Witness ==
    /\ last.op = "relevance"
    /\ last.is_relevant
    /\ chains[last.chain].steps[Len(chains[last.chain].steps)].step_type = VALIDATION
    /\ chains[last.chain].final_answer = Some("RELEVANT")
    /\ Len(chains) = 2
    /\ ~(\E k \in 1..Len(chains[1].steps) : chains[1].steps[k].step_type = VALIDATION)
    /\ 10 * chains[1].final_confidence < 5 * Unit

-----------------------------------------------------------------------------
(* Dates: datetime.fromisoformat and the clock *)

HoursPerDay == 24

Digits == "0123456789"
DigitVal ==
    [c \in {SubSeq(Digits, p, p) : p \in 1..10} |->
        (CHOOSE q \in 1..10 : SubSeq(Digits, q, q) = c) - 1]
AllDigits(s) == \A p \in 1..Len(s) : SubSeq(s, p, p) \in DOMAIN DigitVal

\* int(s) of a string of digits
RECURSIVE Num(_)
Num(s) ==
    IF Len(s) = 0 THEN 0
    ELSE 10 * Num(SubSeq(s, 1, Len(s) - 1)) + DigitVal[SubSeq(s, Len(s), Len(s))]

\* the proleptic Gregorian calendar of datetime
IsLeap(y) == y % 4 = 0 /\ (y % 100 # 0 \/ y % 400 = 0)
DaysInMonth(y, m) ==
    IF m = 2 THEN (IF IsLeap(y) THEN 29 ELSE 28)
    ELSE IF m \in {4, 6, 9, 11} THEN 30 ELSE 31
RECURSIVE DaysBeforeMonth(_, _)
DaysBeforeMonth(y, m) ==
    IF m = 1 THEN 0 ELSE DaysBeforeMonth(y, m - 1) + DaysInMonth(y, m - 1)
DaysBeforeYear(y) ==
    365 * (y - 1) + (y - 1) \div 4 - (y - 1) \div 100 + (y - 1) \div 400
Ordinal(y, m, d) == DaysBeforeYear(y) + DaysBeforeMonth(y, m) + d

\* the clock counts hours since 2026-01-01T00:00:00
EpochOrdinal == Ordinal(2026, 1, 1)

\* "YYYY-MM-DD" naming a day of the calendar
ValidDate(s) ==
    /\ Len(s) = 10
    /\ SubSeq(s, 5, 5) = "-" /\ SubSeq(s, 8, 8) = "-"
    /\ AllDigits(SubSeq(s, 1, 4)) /\ AllDigits(SubSeq(s, 6, 7)) /\ AllDigits(SubSeq(s, 9, 10))
    /\ Num(SubSeq(s, 1, 4)) >= 1
    /\ Num(SubSeq(s, 6, 7)) \in 1..12
    /\ Num(SubSeq(s, 9, 10)) \in 1..DaysInMonth(Num(SubSeq(s, 1, 4)), Num(SubSeq(s, 6, 7)))

\* "HH:MM:SS"
ValidTime(s) ==
    /\ Len(s) = 8
    /\ SubSeq(s, 3, 3) = ":" /\ SubSeq(s, 6, 6) = ":"
    /\ AllDigits(SubSeq(s, 1, 2)) /\ AllDigits(SubSeq(s, 4, 5)) /\ AllDigits(SubSeq(s, 7, 8))
    /\ Num(SubSeq(s, 1, 2)) <= 23 /\ Num(SubSeq(s, 4, 5)) <= 59 /\ Num(SubSeq(s, 7, 8)) <= 59

\* "+HH:MM" or "-HH:MM"
ValidOffset(s) ==
    /\ Len(s) = 6
    /\ SubSeq(s, 1, 1) \in {"+", "-"}
    /\ SubSeq(s, 4, 4) = ":"
    /\ AllDigits(SubSeq(s, 2, 3)) /\ AllDigits(SubSeq(s, 5, 6))
    /\ Num(SubSeq(s, 2, 3)) <= 23 /\ Num(SubSeq(s, 5, 6)) <= 59

DateHours(s) ==
    (Ordinal(Num(SubSeq(s, 1, 4)), Num(SubSeq(s, 6, 7)), Num(SubSeq(s, 9, 10)))
        - EpochOrdinal) * HoursPerDay

\* datetime.fromisoformat(s) for the forms YYYY-MM-DD, YYYY-MM-DD?HH:MM:SS and
\* YYYY-MM-DD?HH:MM:SS+HH:MM (? any separator): the wall-clock time in whole
\* hours (the clock is read on whole hours, so minutes and seconds never change
\* a count of days) with the offset as tzinfo; None when it raises ValueError
fromisoformat(s) ==
    IF /\ Len(s) \in {10, 19, 25}
       /\ ValidDate(SubSeq(s, 1, 10))
       /\ (Len(s) > 10 => ValidTime(SubSeq(s, 12, 19)))
       /\ (Len(s) > 19 => ValidOffset(SubSeq(s, 20, 25)))
    THEN Some([hours |-> DateHours(s) + (IF Len(s) > 10 THEN Num(SubSeq(s, 12, 13)) ELSE 0),
               tzinfo |-> IF Len(s) > 19 THEN Some(SubSeq(s, 20, 25)) ELSE None])
    ELSE None

\* deadline.replace('Z', '+00:00')
RECURSIVE replace_Z(_)
replace_Z(s) ==
    IF Len(s) = 0 THEN ""
    ELSE (IF SubSeq(s, 1, 1) = "Z" THEN "+00:00" ELSE SubSeq(s, 1, 1))
            \o replace_Z(SubSeq(s, 2, Len(s)))

\* (deadline_date.replace(tzinfo=None) - datetime.utcnow()).days: the offset is
\* dropped, not applied, and timedelta.days is the floor of the difference
days_until(deadline_date, t) == (deadline_date.hours - t) \div HoursPerDay

\* abs(n)
Abs(n) == IF n < 0 THEN -n ELSE n

\* f"{n}" of an integer
Str(n) == IF n < 0 THEN "-" \o ToString(-n) ELSE ToString(n)

\* a number of hundredths h >= 0 in fixed point with two decimals
FmtHundredths(h) ==
    ToString(h \div 100) \o "." \o (IF h % 100 < 10 THEN "0" ELSE "") \o ToString(h % 100)

-----------------------------------------------------------------------------
(* ChainOfThoughtReasoner.reason_about_gap_severity *)

\* `except: pass` around the deadline analysis: which exceptions it catches
except_catches_Nothing(exc) == FALSE
except_catches(exc) == TRUE

\* the if / elif chain on days_until: label, confidence and evidence
deadline_bucket(days) ==
    IF days < 0
    THEN [severity |-> "critical", confidence |-> (95 * Unit) \div 100,
          evidence |-> "Deadline PASSED " \o Str(Abs(days)) \o " days ago"]
    ELSE IF days < 30
    THEN [severity |-> "critical", confidence |-> (9 * Unit) \div 10,
          evidence |-> "Only " \o Str(days) \o " days until deadline"]
    ELSE IF days < 90
    THEN [severity |-> "high", confidence |-> (8 * Unit) \div 10,
          evidence |-> Str(days) \o " days until deadline"]
    ELSE IF days < 180
    THEN [severity |-> "medium", confidence |-> (7 * Unit) \div 10,
          evidence |-> Str(days) \o " days until deadline"]
    ELSE [severity |-> "low", confidence |-> (6 * Unit) \div 10,
          evidence |-> Str(days) \o " days until deadline (>6 months)"]

\* the defaults set before `if deadline:`
deadline_default ==
    [severity |-> "low", confidence |-> Unit \div 2, evidence |-> "",
     analysed |-> FALSE, raised |-> FALSE]

\* the try block once the deadline is parsed: the bucket found is kept and the
\* ANALYSIS step appended
deadline_analysed(bucket) ==
    [severity |-> bucket.severity, confidence |-> bucket.confidence,
     evidence |-> bucket.evidence, analysed |-> TRUE, raised |-> FALSE]

\* the try / except around the parse: `parsed` is None when fromisoformat raised
deadline_try(parsed, t) ==
    IF parsed = None
    THEN (IF except_catches("ValueError") THEN deadline_default
          ELSE [deadline_default EXCEPT !.raised = TRUE])
    ELSE deadline_analysed(deadline_bucket(days_until(parsed[1], t)))

\* Step 2, deadline proximity: the label and confidence it leaves, whether it
\* appended its ANALYSIS step, and whether an exception left the operation
deadline_analysis(gap, t) ==
    IF "regulatory_deadline" \in DOMAIN gap /\ gap["regulatory_deadline"] # ""
    THEN deadline_try(fromisoformat(replace_Z(gap["regulatory_deadline"])), t)
    ELSE deadline_default

enforcement_keywords == << "nsps", "neshap", "title v", "ghg reporting", "ldar" >>

\* Step 3, enforcement risk: the keyword loop, then the priority-program
\* override, on regulation_id.lower() and title.lower()
enforcement_of_PriorityCritical(regulation_id, title) ==
    IF Contains("oooo", regulation_id) \/ Contains("methane", title)
    THEN [risk |-> "critical", confidence |-> (85 * Unit) \div 100]
    ELSE IF \E k \in 1..Len(enforcement_keywords) :
                Contains(enforcement_keywords[k], regulation_id)
    THEN [risk |-> "high", confidence |-> (8 * Unit) \div 10]
    ELSE [risk |-> "medium", confidence |-> Unit \div 2]
enforcement_of(regulation_id, title) ==
    IF Contains("oooo", regulation_id) \/ Contains("methane", title)
    THEN [risk |-> "high", confidence |-> (85 * Unit) \div 100]
    ELSE IF \E k \in 1..Len(enforcement_keywords) :
                Contains(enforcement_keywords[k], regulation_id)
    THEN [risk |-> "high", confidence |-> (8 * Unit) \div 10]
    ELSE [risk |-> "medium", confidence |-> Unit \div 2]
enforcement_analysis(gap) ==
    enforcement_of(lower(Get(gap, "regulation_id", "")), lower(Get(gap, "title", "")))

\* Step 4, facility factors
facility_risk(facility) ==
    IF Get(facility, "is_major_source", FALSE) THEN "high" ELSE "medium"

\* severity_scores.get(f, 2)
severity_scores(f) ==
    IF f = "critical" THEN 4
    ELSE IF f = "high" THEN 3
    ELSE IF f = "medium" THEN 2
    ELSE IF f = "low" THEN 1
    ELSE 2

\* the if / elif chain on avg_score = total / count
final_severity_RoundedUp(total, count) ==
    IF total >= 3 * count THEN "critical"
    ELSE IF total >= 2 * count THEN "high"
    ELSE IF total >= count THEN "medium"
    ELSE "low"
final_severity(total, count) ==
    IF 2 * total >= 7 * count THEN "critical"
    ELSE IF 2 * total >= 5 * count THEN "high"
    ELSE IF 2 * total >= 3 * count THEN "medium"
    ELSE "low"

\* the outcome of Steps 2 to 4: the three factors and what Step 5 reads of them
factors_of(d, en, fr) ==
    [deadline_severity |-> d.severity, deadline_confidence |-> d.confidence,
     deadline_evidence |-> d.evidence, deadline_analysed |-> d.analysed,
     raised |-> d.raised,
     enforcement_risk |-> en.risk, enforcement_confidence |-> en.confidence,
     facility_risk |-> fr]
severity_factors(gap, facility, t) ==
    factors_of(deadline_analysis(gap, t), enforcement_analysis(gap), facility_risk(facility))

\* sum(severity_scores.get(f, 2) for f in factors)
severity_total(f) ==
    severity_scores(f.deadline_severity) + severity_scores(f.enforcement_risk)
        + severity_scores(f.facility_risk)

\* final_confidence = (deadline_confidence + enforcement_confidence + 0.7) / 3
final_confidence_WithFacility(f) ==
    (f.deadline_confidence + f.enforcement_confidence
        + (IF f.facility_risk = "high" THEN (85 * Unit) \div 100 ELSE (7 * Unit) \div 10)) \div 3
final_confidence(f) ==
    (f.deadline_confidence + f.enforcement_confidence + (7 * Unit) \div 10) \div 3

\* the value the operation returns with the chain: (final_severity, final_confidence)
severity_result(f) ==
    [severity |-> final_severity(severity_total(f), 3), total |-> severity_total(f),
     confidence |-> final_confidence(f)]

\* the add_step call of Step 1
severity_observation(gap, facility) ==
    StepArgs(OBSERVATION,
             "Analyzing gap: " \o Get(gap, "title", "Unknown") \o " at "
                 \o Get(facility, "name", "Unknown facility"),
             Unit,
             << "Gap type: " \o Get(gap, "gap_type", "unknown"),
                "Regulation: " \o Get(gap, "regulation_id", "unknown") >>)

\* the add_step calls of the operation, in the order the code makes them, given
\* the factors f and the result r
severity_steps(gap, facility, f, r) ==
    << severity_observation(gap, facility) >>
    \o (IF f.deadline_analysed
        THEN << StepArgs(ANALYSIS,
                         "Deadline analysis: " \o upper(f.deadline_severity) \o " urgency",
                         f.deadline_confidence, << f.deadline_evidence >>) >>
        ELSE <<>>)
    \o << StepArgs(ANALYSIS,
                   "Enforcement risk assessment: " \o upper(f.enforcement_risk),
                   f.enforcement_confidence,
                   << "Regulation: " \o lower(Get(gap, "regulation_id", "")),
                      "EPA enforcement priority: "
                          \o (IF f.enforcement_risk = "high" THEN "YES" ELSE "NORMAL") >>) >>
    \o (IF Get(facility, "is_major_source", FALSE)
        THEN << StepArgs(ANALYSIS,
                         "Facility is a Major Source - higher regulatory scrutiny",
                         (85 * Unit) \div 100,
                         << "Major source status triggers additional requirements" >>) >>
        ELSE <<>>)
    \o << StepArgs(INFERENCE,
                   "Combined severity assessment: " \o upper(r.severity),
                   r.confidence,
                   << "Deadline factor: " \o f.deadline_severity,
                      "Enforcement factor: " \o f.enforcement_risk,
                      "Facility factor: " \o f.facility_risk,
                      "Average score: " \o FmtHundredths((200 * r.total + 3) \div 6) >>),
          StepArgs(VALIDATION,
                   "Severity determination validated with "
                       \o Str((2 * r.confidence + 3) \div 6) \o "% confidence",
                   r.confidence,
                   << "All 3 risk factors considered",
                      "Final severity: " \o upper(r.severity) >>) >>

\* sample gaps and facilities; the clock reads 0 (2026-01-01T00:00:00) throughout
\* SpecSeverity, so a deadline's distance in days is fixed by its date and hour
Gap(regulation_id, deadline) ==
    [id |-> "g1", title |-> "Missing inspection records", gap_type |-> "monitoring",
     regulation_id |-> regulation_id, regulatory_deadline |-> deadline]
Facility(major) == [name |-> "Permian Station", is_major_source |-> major]
SeverityInputs ==
    { <<Gap(r, d), Facility(m)>> :
        r \in {"NSPS-LDAR-2024", "state-rule-7"},
        d \in {"2026-01-11T00:00:00Z", "2026-03-01", "2026-06-01", "2027-01-01"},
        m \in BOOLEAN }
    \cup { <<Gap("state-rule-7", d), Facility(m)>> :
            d \in {"", "garbage", "2026-13-45", "2025-12-31T23:00:00"}, m \in BOOLEAN }
    \cup { <<[id |-> "g2", title |-> "No deadline", regulation_id |-> "state-rule-7"],
             Facility(m)>> : m \in BOOLEAN }
    \cup { <<Gap("state-rule-7", d), Facility(FALSE)>> :
            d \in {"2026-01-30T23:00:00", "2026-01-31", "2026-04-01", "2026-06-30"} }
    \cup { <<[id |-> "g3", title |-> "Methane leak survey overdue",
              regulation_id |-> "NSPS-LDAR-2024",
              regulatory_deadline |-> "2026-01-11T00:00:00Z"], Facility(TRUE)>>,
           <<[regulation_id |-> "40 CFR 60 Subpart OOOOb"], [name |-> "Unnamed pad"]>> }

\* the chain the operation leaves in the reasoner: sealed, unless an exception
\* left the operation after Step 1
severity_chain(gap, facility, f, r, t) ==
    IF f.raised
    THEN add_steps(ReasoningChain("sev_" \o Get(gap, "id", "unknown"), AgentType,
                                  "What is the severity of gap: "
                                      \o Get(gap, "title", "Unknown") \o "?", t),
                   << severity_observation(gap, facility) >>, t)
    ELSE complete(add_steps(ReasoningChain("sev_" \o Get(gap, "id", "unknown"), AgentType,
                                           "What is the severity of gap: "
                                               \o Get(gap, "title", "Unknown") \o "?", t),
                            severity_steps(gap, facility, f, r), t),
                  upper(r.severity), r.confidence, t)

\* the call, given the factors f of Steps 2 to 4 and the result r of Step 5
reason_about_gap_severity(gap, facility, f, r) ==
    /\ chains' = Append(chains, severity_chain(gap, facility, f, r, now))
    /\ addCalls' = Append(addCalls, Len(chains'[Len(chains')].steps))
    /\ last' = [op |-> "severity", chain |-> Len(chains) + 1,
                gap |-> gap, facility |-> facility, raised |-> f.raised,
                severity |-> r.severity, confidence |-> r.confidence,
                prev |-> IF last.op = "severity" THEN [last EXCEPT !.prev = NoCall]
                         ELSE NoCall]
    /\ UNCHANGED <<now, calibrator, outside>>

\* a severity call while the list is short of MaxCalls
ReasonSeverityWith(gap, facility, f, r) ==
    /\ Len(chains) < MaxCalls
    /\ reason_about_gap_severity(gap, facility, f, r)

ReasonSeverityFrom(gap, facility, f) ==
    ReasonSeverityWith(gap, facility, f, severity_result(f))

\* ChainOfThoughtReasoner.reason_about_gap_severity(gap, facility)
ReasonSeverity(gap, facility) ==
    ReasonSeverityFrom(gap, facility, severity_factors(gap, facility, now))

NextSeverity == \E in \in SeverityInputs : ReasonSeverity(in[1], in[2])

SpecSeverity == Init /\ [][NextSeverity]_vars

-----------------------------------------------------------------------------
(* Properties of severity reasoning (SpecSeverity) *)

\* the steps of a chain whose content begins with `prefix`
StepsWithContent(chain, prefix) ==
    {k \in 1..Len(chain.steps) : Take(chain.steps[k].content, Len(prefix)) = prefix}

\* the INFERENCE step of the chain of the latest call
InferenceStep == 
    LET chain == chains[last.chain]
    IN  chain.steps[CHOOSE k \in StepsOfKind(chain, INFERENCE) : TRUE]

FactorLabels == {"critical", "high", "medium", "low"}
LabelScore(label) ==
    CASE label = "critical" -> 4 [] label = "high" -> 3 [] label = "medium" -> 2
      [] label = "low" -> 1

\* the deadline of a gap is missing, empty or no ISO date
NoUsableDeadline(gap) ==
    \/ "regulatory_deadline" \notin DOMAIN gap
    \/ fromisoformat(replace_Z(gap.regulatory_deadline)) = None

\* C8: the three factor labels are scored critical=4, high=3, medium=2, low=1, the
\* scores averaged, and the result is critical if the average is >= 3.5, high if
\* >= 2.5, medium if >= 1.5, else low; a deadline 10 days out, a regulation_id
\* with "ldar" (and no priority-program token) and a major-source facility give
\* the scores [4,3,3], the result "high" and confidence 0.8.
C8_SeverityBuckets ==
    (last.op = "severity" /\ ~last.raised) =>
        /\ \E d \in FactorLabels, en \in FactorLabels, f \in FactorLabels :
              /\ InferenceStep.evidence[1] = "Deadline factor: " \o d
              /\ InferenceStep.evidence[2] = "Enforcement factor: " \o en
              /\ InferenceStep.evidence[3] = "Facility factor: " \o f
              /\ LET total == LabelScore(d) + LabelScore(en) + LabelScore(f)
                 IN  last.severity =
                        (IF 10 * total >= 35 * 3 THEN "critical"
                         ELSE IF 10 * total >= 25 * 3 THEN "high"
                         ELSE IF 10 * total >= 15 * 3 THEN "medium"
                         ELSE "low")
        /\ (/\ "regulatory_deadline" \in DOMAIN last.gap
            /\ last.gap.regulatory_deadline = "2026-01-11T00:00:00Z"
            /\ now = 0
            /\ Contains("ldar", lower(Get(last.gap, "regulation_id", "")))
            /\ ~Contains("oooo", lower(Get(last.gap, "regulation_id", "")))
            /\ ~Contains("methane", lower(Get(last.gap, "title", "")))
            /\ Get(last.facility, "is_major_source", FALSE))
           => /\ InferenceStep.evidence
                    = << "Deadline factor: critical", "Enforcement factor: high",
                         "Facility factor: high", "Average score: 3.33" >>
              /\ last.severity = "high"
              /\ 10 * last.confidence = 8 * Unit

C8_Witness ==
    /\ last.op = "severity"
    /\ Get(last.gap, "regulatory_deadline", "") = "2026-01-11T00:00:00Z"
    /\ Get(last.gap, "regulation_id", "") = "NSPS-LDAR-2024"
    /\ Get(last.gap, "title", "") = "Missing inspection records"
    /\ Get(last.facility, "is_major_source", FALSE)
    /\ last.severity = "high"
    /\ 10 * last.confidence = 8 * Unit
    /\ InferenceStep.evidence[4] = "Average score: 3.33"
    /\ last.prev.op = "severity"
    /\ last.prev.severity = "medium"
    /\ chains[1].steps[Len(chains[1].steps) - 1].evidence[1] = "Deadline factor: low"

\* C9: the confidence returned is (deadline_confidence + enforcement_confidence
\* + 0.7) / 3, with the confidences of the deadline step (0.5 without one) and of
\* the enforcement step, and two calls that differ only in the facility return
\* the same confidence.
C9_ConfidenceIgnoresFacility ==
    (last.op = "severity" /\ ~last.raised) =>
        LET chain == chains[last.chain]
            dl == StepsWithContent(chain, "Deadline analysis: ")
            en == StepsWithContent(chain, "Enforcement risk assessment: ")
            dc == IF dl = {} THEN Unit \div 2
                  ELSE chain.steps[CHOOSE k \in dl : TRUE].confidence
            ec == chain.steps[CHOOSE k \in en : TRUE].confidence
        IN  /\ Cardinality(en) = 1 /\ Cardinality(dl) <= 1
            /\ 30 * last.confidence = 10 * dc + 10 * ec + 7 * Unit
            /\ (last.prev.op = "severity" /\ last.prev.gap = last.gap)
                  => last.prev.confidence = last.confidence

C9_Witness ==
    /\ last.op = "severity"
    /\ last.prev.op = "severity"
    /\ last.prev.gap = last.gap
    /\ Get(last.facility, "is_major_source", FALSE)
    /\ ~Get(last.prev.facility, "is_major_source", FALSE)
    /\ StepsWithContent(chains[2], "Facility is a Major Source") # {}
    /\ StepsWithContent(chains[1], "Facility is a Major Source") = {}
    /\ last.severity # last.prev.severity
    /\ chains[1].final_confidence = chains[2].final_confidence

\* C10: with a missing or unparseable regulatory_deadline the operation does not
\* raise: the deadline factor is low with confidence 0.5, no deadline ANALYSIS
\* step is appended, and the chain is completed and the result returned.
C10_BadDeadlineDefaults ==
    (last.op = "severity" /\ NoUsableDeadline(last.gap)) =>
        LET chain == chains[last.chain]
            en == StepsWithContent(chain, "Enforcement risk assessment: ")
        IN  /\ ~last.raised
            /\ StepsWithContent(chain, "Deadline analysis: ") = {}
            /\ Kinds(chain) \in { <<OBSERVATION, ANALYSIS, INFERENCE, VALIDATION>>,
                                  <<OBSERVATION, ANALYSIS, ANALYSIS, INFERENCE, VALIDATION>> }
            /\ InferenceStep.evidence[1] = "Deadline factor: low"
            /\ 30 * last.confidence
                  = 5 * Unit + 10 * chain.steps[CHOOSE k \in en : TRUE].confidence + 7 * Unit
            /\ chain.final_answer = Some(upper(last.severity))
            /\ chain.final_confidence = last.confidence
            /\ chain.completed_at # None

C10_Witness ==
    /\ last.op = "severity"
    /\ ~last.raised
    /\ last.prev.op = "severity"
    /\ "regulatory_deadline" \notin DOMAIN last.prev.gap
    /\ chains[1].completed_at # None
    /\ Get(last.gap, "regulatory_deadline", "") = "garbage"
    /\ chains[2].final_answer = Some("MEDIUM")

-----------------------------------------------------------------------------
(* ChainOfThoughtReasoner.reason_about_remediation_cost *)

\* Dollar amounts are held as integers, CostUnit to the dollar: the averages
\* and blends of up to three whole-dollar costs are whole numbers of that unit.
CostUnit == 60

\* cost_estimates.items(), in the dict's insertion order
cost_estimates ==
    << << "ldar", 3000, 8000 >>,
       << "pneumatic", 500, 2000 >>,
       << "storage", 25000, 75000 >>,
       << "permit", 10000, 25000 >>,
       << "dehydrator", 40000, 80000 >>,
       << "monitoring", 5000, 15000 >>,
       << "documentation", 2000, 5000 >> >>

\* the for ... else of Step 1: the first key found in the title, or the default
gap_type_of(gap_title) ==
    LET matched == SelectSeq(cost_estimates, LAMBDA e : Contains(e[1], gap_title))
    IN  IF matched = <<>>
        THEN [gap_type |-> "unknown", base_low |-> 5000 * CostUnit,
              base_high |-> 20000 * CostUnit]
        ELSE [gap_type |-> matched[1][1], base_low |-> matched[1][2] * CostUnit,
              base_high |-> matched[1][3] * CostUnit]

\* the character classes \d, \w and \s of re (ASCII)
IsDigit(c) == c \in DOMAIN DigitVal
IsWord(c) == IsDigit(c) \/ c \in DOMAIN ToLower \/ c \in DOMAIN ToUpper \/ c = "_"
IsSpace(c) == c \in {" ", "\t", "\n", "\r", "\f"}

unit_words == << "controller", "tank", "vessel", "source", "unit" >>

\* the end of the longest run of characters of a class that starts at p
\* (p - 1 when there is none)
RECURSIVE DigitsEnd(_, _)
DigitsEnd(s, p) ==
    IF p <= Len(s) /\ IsDigit(SubSeq(s, p, p)) THEN DigitsEnd(s, p + 1) ELSE p - 1
RECURSIVE SpacesEnd(_, _)
SpacesEnd(s, p) ==
    IF p <= Len(s) /\ IsSpace(SubSeq(s, p, p)) THEN SpacesEnd(s, p + 1) ELSE p - 1

\* s has one of the unit words at position p
UnitAt(s, p) ==
    \E k \in 1..Len(unit_words) :
        /\ p + Len(unit_words[k]) - 1 <= Len(s)
        /\ SubSeq(s, p, p + Len(unit_words[k]) - 1) = unit_words[k]

\* \b(\d+)\s*(?:controller|tank|vessel|source|unit) matches s at p: a run of
\* digits that starts a word, any white space, a unit word
MatchAt(s, p) ==
    /\ IsDigit(SubSeq(s, p, p))
    /\ (p = 1 \/ ~IsWord(SubSeq(s, p - 1, p - 1)))
    /\ UnitAt(s, SpacesEnd(s, DigitsEnd(s, p) + 1) + 1)

\* re.findall(...)[0] when there is a match: the digits of the leftmost match
first_number(s) ==
    LET starts == {p \in 1..Len(s) : MatchAt(s, p)}
    IN  IF starts = {} THEN None
        ELSE LET p == CHOOSE q \in starts : \A r \in starts : q <= r
             IN  Some(SubSeq(s, p, DigitsEnd(s, p)))

\* Step 2: multiplier = int(numbers[0]) if numbers else 1
multiplier_of(numbers) == IF numbers = None THEN 1 ELSE Num(numbers[1])

\* `g.get(key)` is truthy: present and not 0
HasCost(g, key) == key \in DOMAIN g /\ g[key] # 0

\* g.get("actual_cost") or g.get("estimated_cost", 0)
cost_of(g) == IF HasCost(g, "actual_cost") THEN g.actual_cost ELSE Get(g, "estimated_cost", 0)

\* similar_costs of Step 3, for a non-empty list similar_gaps
similar_costs_of(similar_gaps) ==
    LET kept == SelectSeq(similar_gaps,
                          LAMBDA g : HasCost(g, "actual_cost") \/ HasCost(g, "estimated_cost"))
    IN  [k \in 1..Len(kept) |-> cost_of(kept[k])]

RECURSIVE Sum(_)
Sum(s) == IF s = <<>> THEN 0 ELSE s[1] + Sum(Tail(s))

\* sum(similar_costs) / len(similar_costs), in CostUnit
avg_similar_of(similar_costs) == (Sum(similar_costs) * CostUnit) \div Len(similar_costs)

\* the weighting of historical data: (base + avg * 0.8) / 2, (base + avg * 1.2) / 2
blend_low(base_low, avg_similar) == (base_low + (avg_similar * 8) \div 10) \div 2
blend_high(base_high, avg_similar) == (base_high + (avg_similar * 12) \div 10) \div 2

\* Steps 1 to 3 on given title, numbers and similar costs (None when
\* similar_gaps is None or empty)
cost_basis_of(g, numbers, similar) ==
    [gap_type |-> g.gap_type,
     numbers |-> numbers,
     multiplier |-> multiplier_of(numbers),
     similar_gaps |-> similar # None,
     similar_costs |-> IF similar = None THEN <<>> ELSE similar[1],
     blended |-> similar # None /\ similar[1] # <<>>,
     base_low |-> IF similar # None /\ similar[1] # <<>>
                  THEN blend_low(g.base_low, avg_similar_of(similar[1]))
                  ELSE g.base_low,
     base_high |-> IF similar # None /\ similar[1] # <<>>
                   THEN blend_high(g.base_high, avg_similar_of(similar[1]))
                   ELSE g.base_high]

\* `if similar_gaps:` is taken for a list that is neither None nor empty
cost_basis(gap, similar_gaps) ==
    cost_basis_of(gap_type_of(lower(Get(gap, "title", ""))),
                  first_number(lower(Get(gap, "description", ""))),
                  IF similar_gaps = None \/ similar_gaps = Some(<<>>) THEN None
                  ELSE Some(similar_costs_of(similar_gaps[1])))

\* Step 4: ((base_low + base_high) / 2) * multiplier and the range
estimated_cost_LowEnd(b) == b.base_low * b.multiplier
estimated_cost(b) == ((b.base_low + b.base_high) \div 2) * b.multiplier
cost_range(b) == << b.base_low * b.multiplier, b.base_high * b.multiplier >>

\* confidence based on information quality
cost_confidence_NoPenalty(b) ==
    (7 * Unit) \div 10
    + (IF b.gap_type # "unknown" THEN Unit \div 10 ELSE 0)
    + (IF b.similar_gaps THEN Unit \div 10 ELSE 0)
cost_confidence(b) ==
    (7 * Unit) \div 10
    + (IF b.gap_type # "unknown" THEN Unit \div 10 ELSE 0)
    + (IF b.similar_gaps THEN Unit \div 10 ELSE 0)
    - (IF b.multiplier > 1 THEN Unit \div 20 ELSE 0)

\* the value the operation returns with the chain: (estimated_cost, confidence)
cost_result(b) ==
    [estimated_cost |-> estimated_cost(b), cost_range |-> cost_range(b),
     confidence |-> cost_confidence(b)]

\* round(): the nearest integer to c / CostUnit, a tie going to the even one
RoundHalfEven(c) ==
    LET q == c \div CostUnit
        r == c % CostUnit
    IN  IF 2 * r < CostUnit \/ (2 * r = CostUnit /\ q % 2 = 0) THEN q ELSE q + 1

\* f"{n:,}" of an integer n >= 0
RECURSIVE Commas(_)
Commas(n) ==
    IF n < 1000 THEN ToString(n)
    ELSE Commas(n \div 1000) \o ","
         \o (IF n % 1000 < 10 THEN "00" ELSE IF n % 1000 < 100 THEN "0" ELSE "")
         \o ToString(n % 1000)

\* f"{c:,.0f}" of an amount c >= 0
FmtMoney(c) == Commas(RoundHalfEven(c))

\* the add_step calls of the operation, in order
cost_steps(gap, b, r) ==
    << StepArgs(OBSERVATION,
                "Gap type identified: "
                    \o (IF b.gap_type # "unknown" THEN b.gap_type ELSE "general compliance"),
                IF b.gap_type # "unknown" THEN (8 * Unit) \div 10 ELSE (5 * Unit) \div 10,
                << "Title keywords: " \o Take(lower(Get(gap, "title", "")), 50) >>) >>
    \o (IF b.numbers # None
        THEN << StepArgs(ANALYSIS,
                         "Found quantity multiplier: " \o ToString(b.multiplier) \o " units",
                         (75 * Unit) \div 100,
                         << "Extracted from: '"
                                \o Take(Get(gap, "description", ""), 100) \o "...'" >>) >>
        ELSE <<>>)
    \o (IF b.blended
        THEN << StepArgs(ANALYSIS,
                         "Found " \o ToString(Len(b.similar_costs))
                             \o " similar historical gaps",
                         (85 * Unit) \div 100,
                         << "Average historical cost: $"
                                \o FmtMoney(avg_similar_of(b.similar_costs)) >>) >>
        ELSE <<>>)
    \o << StepArgs(INFERENCE,
                   "Estimated cost: $" \o FmtMoney(r.estimated_cost)
                       \o " (range: $" \o FmtMoney(r.cost_range[1])
                       \o " - $" \o FmtMoney(r.cost_range[2]) \o ")",
                   r.confidence,
                   << "Base range: $" \o FmtMoney(b.base_low) \o " - $"
                          \o FmtMoney(b.base_high),
                      "Multiplier: " \o ToString(b.multiplier) \o "x",
                      "Gap type: " \o b.gap_type >>) >>

\* the chain the operation leaves in the reasoner
cost_chain(gap, b, r, t) ==
    complete(add_steps(ReasoningChain("cost_" \o Get(gap, "id", "unknown"), AgentType,
                                      "What is the estimated remediation cost for: "
                                          \o Get(gap, "title", "Unknown") \o "?", t),
                       cost_steps(gap, b, r), t),
             "$" \o FmtMoney(r.estimated_cost), r.confidence, t)

\* sample gaps and lists of similar gaps
CostTitles ==
    { "Pneumatic Controller Retrofit",      \* pneumatic
      "LDAR Monitoring Program Update",     \* ldar, before monitoring
      "Tank Storage Permit Renewal",        \* storage, before permit
      "Housekeeping" }                      \* no gap type
CostDescriptions ==
    { "",
      "Replace 15 controllers",
      "Inspect 1 tank",
      "Phase2 has 3 wells, 2 Vessels",
      "0 units remain" }
SimilarGaps ==
    { None,
      Some(<<>>),
      Some(<< [id |-> "g0"] >>),
      Some(<< [actual_cost |-> 10000] >>),
      Some(<< [actual_cost |-> 0, estimated_cost |-> 4000],
              [estimated_cost |-> 2000],
              [id |-> "g3"],
              [actual_cost |-> 3000, estimated_cost |-> 9000] >>) }
CostInputs ==
    { << [id |-> "g1", title |-> t, description |-> d], s >> :
        t \in CostTitles, d \in CostDescriptions, s \in SimilarGaps }
    \cup { << [description |-> "007 sources"], None >>,
           << [id |-> "g4", title |-> "pneumatic", description |-> "15 controllers"], None >>,
           << [id |-> "g2", title |-> "Dehydrator documentation"],
              Some(<< [actual_cost |-> 1001], [estimated_cost |-> 2000] >>) >> }

\* the call, given the basis b of Steps 1 to 3 and the result r of Step 4
reason_about_remediation_cost(gap, similar_gaps, b, r) ==
    /\ chains' = Append(chains, cost_chain(gap, b, r, now))
    /\ addCalls' = Append(addCalls, Len(chains'[Len(chains')].steps))
    /\ last' = [op |-> "cost", chain |-> Len(chains) + 1,
                gap |-> gap, similar_gaps |-> similar_gaps,
                estimated_cost |-> r.estimated_cost, cost_range |-> r.cost_range,
                confidence |-> r.confidence]
    /\ UNCHANGED <<now, calibrator, outside>>

\* a cost call while the list is short of MaxChains
ReasonCostWith(gap, similar_gaps, b, r) ==
    /\ Len(chains) < MaxChains
    /\ reason_about_remediation_cost(gap, similar_gaps, b, r)

ReasonCostFrom(gap, similar_gaps, b) == ReasonCostWith(gap, similar_gaps, b, cost_result(b))

\* ChainOfThoughtReasoner.reason_about_remediation_cost(gap, similar_gaps)
ReasonCost(gap, similar_gaps) == ReasonCostFrom(gap, similar_gaps, cost_basis(gap, similar_gaps))

NextCost == \E in \in CostInputs : ReasonCost(in[1], in[2])

SpecCost == Init /\ [][NextCost]_vars

-----------------------------------------------------------------------------
(* Properties of cost reasoning (SpecCost) *)

\* the range of the first gap type, in the order ldar, pneumatic, storage,
\* permit, dehydrator, monitoring, documentation, that occurs in the lower-cased
\* title; (5000, 20000) when none does
TitleRange(gap) ==
    LET title == lower(Get(gap, "title", ""))
    IN  IF Contains("ldar", title) THEN << 3000, 8000 >>
        ELSE IF Contains("pneumatic", title) THEN << 500, 2000 >>
        ELSE IF Contains("storage", title) THEN << 25000, 75000 >>
        ELSE IF Contains("permit", title) THEN << 10000, 25000 >>
        ELSE IF Contains("dehydrator", title) THEN << 40000, 80000 >>
        ELSE IF Contains("monitoring", title) THEN << 5000, 15000 >>
        ELSE IF Contains("documentation", title) THEN << 2000, 5000 >>
        ELSE << 5000, 20000 >>
TitleMatched(gap) == TitleRange(gap) # << 5000, 20000 >>

\* the quantity each sample description states before a unit word, if any
DescriptionQuantity ==
    [d \in CostDescriptions \cup {"007 sources", "15 controllers"} |->
        CASE d = "Replace 15 controllers" -> Some(15)
          [] d = "15 controllers" -> Some(15)
          [] d = "Inspect 1 tank" -> Some(1)
          [] d = "Phase2 has 3 wells, 2 Vessels" -> Some(2)
          [] d = "0 units remain" -> Some(0)
          [] d = "007 sources" -> Some(7)
          [] OTHER -> None]
Quantity(gap) == DescriptionQuantity[Get(gap, "description", "")]
Multiplier(gap) == IF Quantity(gap) = None THEN 1 ELSE Quantity(gap)[1]

\* ten times the average of the costs each sample list of similar gaps carries
\* (actual, else estimated), None for a list without costs
HistoryAverage10(similar_gaps) ==
    CASE similar_gaps = Some(<< [actual_cost |-> 10000] >>) -> Some(100000)
      [] similar_gaps # None /\ Len(similar_gaps[1]) = 4 -> Some(30000)
      [] similar_gaps # None /\ Len(similar_gaps[1]) = 2 -> Some(15005)
      [] OTHER -> None

\* the step of the chain of the latest call that reports historical gaps
HistorySteps == StepsWithContent(chains[last.chain], "Found ") \cap
                    {k \in 1..Len(chains[last.chain].steps) :
                        Contains("similar historical gaps",
                                 chains[last.chain].steps[k].content)}

\* C11: estimated_cost is ((base_low + base_high) / 2) * multiplier, the range
\* being that of the matched gap type (default (5000, 20000)), blended with the
\* average avg of the historical costs, when there are any, as
\* (base_low + 0.8 avg) / 2 and (base_high + 1.2 avg) / 2, and the multiplier the
\* extracted quantity or 1; title "pneumatic" and description "15 controllers"
\* without history give the range (7500, 30000) and the estimate 18750.
C11_EstimatedCost ==
    last.op = "cost" =>
        LET low == TitleRange(last.gap)[1] * CostUnit
            high == TitleRange(last.gap)[2] * CostUnit
            avg10 == HistoryAverage10(last.similar_gaps)
            avg == IF avg10 = None THEN 0 ELSE (avg10[1] * CostUnit) \div 10
            m == Multiplier(last.gap)
        IN  /\ (avg10 = None) =>
                  /\ 2 * last.estimated_cost = (low + high) * m
                  /\ last.cost_range = << low * m, high * m >>
            /\ (avg10 # None) =>
                  /\ 5 * (4 * last.estimated_cost - (low + high) * m) = 10 * avg * m
                  /\ 5 * (2 * last.cost_range[1] - low * m) = 4 * avg * m
                  /\ 5 * (2 * last.cost_range[2] - high * m) = 6 * avg * m
            /\ (/\ Get(last.gap, "title", "") = "pneumatic"
                /\ Get(last.gap, "description", "") = "15 controllers"
                /\ last.similar_gaps = None)
               => /\ last.estimated_cost = 18750 * CostUnit
                  /\ last.cost_range = << 7500 * CostUnit, 30000 * CostUnit >>

C11_Witness ==
    /\ last.op = "cost"
    /\ Get(last.gap, "title", "") = "Pneumatic Controller Retrofit"
    /\ Get(last.gap, "description", "") = "Replace 15 controllers"
    /\ last.similar_gaps = Some(<< [actual_cost |-> 10000] >>)
    /\ last.estimated_cost = 84375 * CostUnit
    /\ chains[last.chain].final_answer = Some("$84,375")
    /\ HistorySteps # {}

\* C12: the confidence is 0.7, plus 0.1 if a gap type matched, plus 0.1 exactly
\* when the historical-analysis step was appended (the base range blended),
\* minus 0.05 if the multiplier is greater than 1.
C12_HistoryBonusWhenBlended ==
    last.op = "cost" =>
        20 * last.confidence
            = 14 * Unit
              + (IF TitleMatched(last.gap) THEN 2 * Unit ELSE 0)
              + (IF HistorySteps # {} THEN 2 * Unit ELSE 0)
              - (IF Multiplier(last.gap) > 1 THEN Unit ELSE 0)

\* C20: no input gives a confidence outside [0,1]: the confidence is the plain
\* sum 0.7 + 0.1 (gap type matched) + 0.1 (similar_gaps given and not empty)
\* - 0.05 (multiplier > 1), which lies between 0.65 and 0.9, and it is the
\* final_confidence of the chain.
C20_ConfidenceNeverOutOfRange ==
    last.op = "cost" =>
        /\ 20 * last.confidence
              = 14 * Unit
                + (IF TitleMatched(last.gap) THEN 2 * Unit ELSE 0)
                + (IF last.similar_gaps \notin {None, Some(<<>>)} THEN 2 * Unit ELSE 0)
                - (IF Multiplier(last.gap) > 1 THEN Unit ELSE 0)
        /\ 100 * last.confidence >= 65 * Unit
        /\ 100 * last.confidence <= 90 * Unit
        /\ chains[last.chain].final_confidence = last.confidence

\* C20 as stated: some gap type, presence of similar gaps and multiplier give a
\* confidence outside [0,1]
C20_SomeConfidenceOutOfRange ==
    last.op = "cost" =>
        \E gap_type \in {"unknown"} \cup {cost_estimates[k][1] : k \in 1..Len(cost_estimates)},
           similar_gaps \in BOOLEAN, multiplier \in 0..15 :
            LET c == cost_confidence([gap_type |-> gap_type, similar_gaps |-> similar_gaps,
                                      multiplier |-> multiplier])
            IN  c < 0 \/ c > Unit

C20_Witness ==
    /\ last.op = "cost"
    /\ TitleMatched(last.gap)
    /\ last.similar_gaps = Some(<< [id |-> "g0"] >>)
    /\ Multiplier(last.gap) = 0
    /\ 10 * last.confidence = 9 * Unit

-----------------------------------------------------------------------------
(* ConfidenceCalibrator *)

MaxPredictions == 3     \* record_prediction calls on one calibrator

\* Ratios of the calibrator (accuracy, average confidence, calibration factor,
\* adjusted confidence) are held as fractions num/den in lowest terms, den > 0.
RECURSIVE GCD(_, _)
GCD(a, b) == IF b = 0 THEN a ELSE GCD(b, a % b)
Frac(n, d) ==
    LET g == GCD(Abs(n), d)
    IN  [num |-> n \div g, den |-> d \div g]
One == [num |-> 1, den |-> 1]
Zero == [num |-> 0, den |-> 1]

\* a / b for fractions, b > 0
FracDiv(a, b) == Frac(a.num * b.den, a.den * b.num)

\* datetime.utcnow().isoformat() at clock value t, within the first month
TwoDigits(n) == (IF n < 10 THEN "0" ELSE "") \o ToString(n)
isoformat(t) ==
    "2026-01-" \o TwoDigits(t \div HoursPerDay + 1) \o "T"
        \o TwoDigits(t % HoursPerDay) \o ":00:00"

\* ConfidenceCalibrator.record_prediction: the list after the call
record_prediction(preds, prediction_id, predicted_value, confidence, category, t) ==
    Append(preds,
           [id |-> prediction_id, predicted |-> predicted_value,
            confidence |-> confidence, category |-> category,
            timestamp |-> isoformat(t), actual |-> None, correct |-> None])

\* the for loop of record_outcome: the first record with the id, if any
first_match(preds, prediction_id) ==
    LET hits == {k \in 1..Len(preds) : preds[k].id = prediction_id}
    IN  IF hits = {} THEN 0 ELSE CHOOSE k \in hits : \A j \in hits : k <= j

\* ConfidenceCalibrator.record_outcome: the list after the call
record_outcome_LastMatch(preds, prediction_id, actual_value) ==
    LET hits == {k \in 1..Len(preds) : preds[k].id = prediction_id}
    IN  IF hits = {} THEN preds
        ELSE LET k == CHOOSE i \in hits : \A j \in hits : j <= i
             IN  [preds EXCEPT ![k].actual = Some(actual_value),
                               ![k].correct = Some(preds[k].predicted = actual_value)]
record_outcome_RecordsUnknown(preds, prediction_id, actual_value) ==
    LET k == first_match(preds, prediction_id)
    IN  IF k = 0
        THEN Append(preds, [id |-> prediction_id, predicted |-> actual_value,
                            confidence |-> Unit, category |-> "unknown",
                            timestamp |-> isoformat(0),
                            actual |-> Some(actual_value), correct |-> Some(TRUE)])
        ELSE [preds EXCEPT ![k].actual = Some(actual_value),
                           ![k].correct = Some(preds[k].predicted = actual_value)]
record_outcome_FirstWriteWins(preds, prediction_id, actual_value) ==
    LET k == first_match(preds, prediction_id)
    IN  IF k = 0 \/ preds[k].correct # None THEN preds
        ELSE [preds EXCEPT ![k].actual = Some(actual_value),
                           ![k].correct = Some(preds[k].predicted = actual_value)]
record_outcome(preds, prediction_id, actual_value) ==
    LET k == first_match(preds, prediction_id)
    IN  IF k = 0 THEN preds
        ELSE [preds EXCEPT ![k].actual = Some(actual_value),
                           ![k].correct = Some(preds[k].predicted = actual_value)]

\* the records of a list that are correct, and the sum of their confidences
CountCorrect(bucket) == Len(SelectSeq(bucket, LAMBDA p : p.correct = Some(TRUE)))
RECURSIVE SumConfidence(_)
SumConfidence(bucket) ==
    IF bucket = <<>> THEN 0 ELSE bucket[1].confidence + SumConfidence(Tail(bucket))

\* accuracy / avg_confidence if avg_confidence > 0 else 1.0
calibration_ratio_Inverse(accuracy, avg_confidence) ==
    IF accuracy.num > 0 THEN FracDiv(avg_confidence, accuracy) ELSE One
calibration_ratio(accuracy, avg_confidence) ==
    IF avg_confidence.num > 0 THEN FracDiv(accuracy, avg_confidence) ELSE One

\* accuracy, average confidence and their ratio over a non-empty list of
\* resolved records
stats_of(correct, total, n) ==
    [accuracy |-> Frac(correct, n),
     avg_confidence |-> Frac(total, n * Unit),
     calibration |-> calibration_ratio(Frac(correct, n), Frac(total, n * Unit))]
stats(bucket) == stats_of(CountCorrect(bucket), SumConfidence(bucket), Len(bucket))

\* the three entries of results for a bucket, none for an empty bucket
bucket_entries_of(bucket_name, bucket, s) ==
    IF bucket = <<>> THEN <<>>
    ELSE (bucket_name \o "_accuracy") :> s.accuracy
         @@ (bucket_name \o "_avg_confidence") :> s.avg_confidence
         @@ (bucket_name \o "_calibration") :> s.calibration
bucket_entries(bucket_name, bucket) ==
    bucket_entries_of(bucket_name, bucket, IF bucket = <<>> THEN One ELSE stats(bucket))

\* the dict calculate_calibration returns for the resolved records
results_of(resolved, s) ==
    IF resolved = <<>>
    THEN [calibration_factor |-> One, accuracy |-> None, samples |-> 0]
    ELSE [samples |-> Len(resolved)]
         @@ bucket_entries("high",
                SelectSeq(resolved, LAMBDA p : 10 * p.confidence >= 8 * Unit))
         @@ bucket_entries("medium",
                SelectSeq(resolved, LAMBDA p : /\ 10 * p.confidence >= 5 * Unit
                                               /\ 10 * p.confidence < 8 * Unit))
         @@ bucket_entries("low",
                SelectSeq(resolved, LAMBDA p : 10 * p.confidence < 5 * Unit))
         @@ [accuracy |-> Some(s.accuracy), avg_confidence |-> s.avg_confidence,
             calibration_factor |-> s.calibration]

\* ConfidenceCalibrator.calculate_calibration: the dict returned
calculate_calibration_of(resolved) ==
    results_of(resolved, IF resolved = <<>> THEN One ELSE stats(resolved))
calculate_calibration(preds) ==
    calculate_calibration_of(SelectSeq(preds, LAMBDA p : p.correct # None))

\* ConfidenceCalibrator.adjust_confidence, with the stored factor: the product
\* clamped to [0, 1]
adjust_confidence_Unclamped(raw_confidence, factor) ==
    Frac(raw_confidence * factor.num, Unit * factor.den)
adjust_confidence(raw_confidence, factor) ==
    LET adjusted == Frac(raw_confidence * factor.num, Unit * factor.den)
        capped == IF adjusted.num >= adjusted.den THEN One ELSE adjusted    \* min(1.0, .)
    IN  IF capped.num <= 0 THEN Zero ELSE capped                            \* max(0.0, .)

\* sample arguments of the calibrator's methods
\* (a new prediction takes a fresh id or repeats the id of the first one)
PredictionIds == {"p" \o ToString(k) : k \in 1..MaxPredictions}
PredictionInputs(preds) ==
    { [id |-> id, predicted |-> "high", confidence |-> c, category |-> "severity"] :
        id \in {"p1", "p" \o ToString(Len(preds) + 1)}, c \in {0, (9 * Unit) \div 10} }
OutcomeIds == PredictionIds \cup {"p9"}
OutcomeValues == {"high", "low"}
RawConfidences == {-(Unit \div 2), (9 * Unit) \div 10, (3 * Unit) \div 2}

\* ConfidenceCalibrator.record_prediction(id, predicted_value, confidence, category)
RecordPrediction(in) ==
    /\ Len(predictions) < MaxPredictions
    /\ predictions' = record_prediction(predictions, in.id, in.predicted, in.confidence,
                                        in.category, now)
    /\ last' = [op |-> "record_prediction", id |-> in.id]
    /\ UNCHANGED <<calibration_factor, reasoner, outside>>

\* a variant that puts the stored factor back to 1.0 when an outcome arrives
RecordOutcome_ResetsFactor(prediction_id, actual_value) ==
    /\ predictions' = record_outcome(predictions, prediction_id, actual_value)
    /\ last' = [op |-> "record_outcome", id |-> prediction_id, actual |-> actual_value,
                before |-> IF first_match(predictions, prediction_id) = 0 THEN None
                           ELSE predictions[first_match(predictions, prediction_id)].correct]
    /\ calibration_factor' = One
    /\ UNCHANGED <<reasoner, outside>>

\* ConfidenceCalibrator.record_outcome(prediction_id, actual_value)
RecordOutcome(prediction_id, actual_value) ==
    /\ predictions' = record_outcome(predictions, prediction_id, actual_value)
    /\ last' = [op |-> "record_outcome", id |-> prediction_id, actual |-> actual_value,
                before |-> IF first_match(predictions, prediction_id) = 0 THEN None
                           ELSE predictions[first_match(predictions, prediction_id)].correct]
    /\ UNCHANGED <<calibration_factor, reasoner, outside>>

\* the call, given the dict it returns: the factor is stored unless the early
\* return for no resolved record was taken
CalculateCalibrationWith(results) ==
    /\ calibration_factor' = IF results.samples = 0 THEN calibration_factor
                             ELSE results.calibration_factor
    /\ last' = [op |-> "calculate_calibration", results |-> results]
    /\ UNCHANGED <<predictions, reasoner, outside>>

\* ConfidenceCalibrator.calculate_calibration()
CalculateCalibration == CalculateCalibrationWith(calculate_calibration(predictions))

\* ConfidenceCalibrator.adjust_confidence(raw_confidence)
AdjustConfidence(raw_confidence) ==
    /\ last' = [op |-> "adjust_confidence", raw |-> raw_confidence,
                adjusted |-> adjust_confidence(raw_confidence, calibration_factor)]
    /\ UNCHANGED <<predictions, calibration_factor, reasoner, outside>>

NextCalibrator ==
    \/ \E in \in PredictionInputs(predictions) : RecordPrediction(in)
    \/ \E id \in OutcomeIds, v \in OutcomeValues : RecordOutcome(id, v)
    \/ CalculateCalibration
    \/ \E raw \in RawConfidences : AdjustConfidence(raw)

SpecCalibrator == Init /\ [][NextCalibrator]_vars

-----------------------------------------------------------------------------
(* Properties of the calibrator (SpecCalibrator) *)

\* the resolved records, how many of them are correct, and 300 times the sum of
\* their confidences
Resolved == {k \in 1..Len(predictions) : predictions[k].correct # None}
Correct == {k \in Resolved : predictions[k].correct = Some(TRUE)}
RECURSIVE ConfidenceOver(_)
ConfidenceOver(S) ==
    IF S = {} THEN 0
    ELSE LET k == CHOOSE j \in S : TRUE
         IN  predictions[k].confidence + ConfidenceOver(S \ {k})

\* a fraction in thousandths, to the nearest
Round3(f) == (2000 * f.num + f.den) \div (2 * f.den)

\* the first record with the id, in insertion order (0 when there is none)
FirstWithId(preds, id) ==
    IF \A k \in 1..Len(preds) : preds[k].id # id THEN 0
    ELSE CHOOSE k \in 1..Len(preds) :
            preds[k].id = id /\ \A j \in 1..(k - 1) : preds[j].id # id

\* C13: without a resolved prediction calculate_calibration returns
\* {calibration_factor: 1.0, accuracy: None, samples: 0}; otherwise it returns and
\* stores (fraction of the resolved records that are correct) / (their mean
\* confidence), or 1.0 when that mean is 0; three resolved predictions at 0.9 with
\* two correct give the factor 0.741, and adjust_confidence(0.9) is then 0.667.
C13_CalibrationFactor ==
    /\ last.op = "calculate_calibration" =>
          IF Resolved = {}
          THEN /\ last.results = [calibration_factor |-> One, accuracy |-> None,
                                  samples |-> 0]
               /\ calibration_factor = One
          ELSE /\ last.results.samples = Cardinality(Resolved)
               /\ last.results.calibration_factor = calibration_factor
               /\ ConfidenceOver(Resolved) > 0 =>
                     calibration_factor.num * ConfidenceOver(Resolved)
                         = calibration_factor.den * Cardinality(Correct) * Unit
               /\ ConfidenceOver(Resolved) = 0 => calibration_factor = One
               /\ (/\ Cardinality(Resolved) = 3
                   /\ \A k \in Resolved : 10 * predictions[k].confidence = 9 * Unit
                   /\ Cardinality(Correct) = 2)
                  => Round3(calibration_factor) = 741
    /\ (/\ last.op = "adjust_confidence"
        /\ 10 * last.raw = 9 * Unit
        /\ Round3(calibration_factor) = 741)
       => Round3(last.adjusted) = 667

C13_Witness ==
    /\ last.op = "adjust_confidence"
    /\ 10 * last.raw = 9 * Unit
    /\ Cardinality(Resolved) = 3
    /\ \A k \in Resolved : 10 * predictions[k].confidence = 9 * Unit
    /\ Cardinality(Correct) = 2
    /\ calibration_factor = [num |-> 20, den |-> 27]
    /\ last.adjusted = [num |-> 2, den |-> 3]

\* C14: adjust_confidence(raw) returns raw * calibration_factor clamped to
\* [0, 1], whatever the raw value and the factor reached.
C14_AdjustClamped ==
    last.op = "adjust_confidence" =>
        LET f == calibration_factor
            a == last.adjusted
        IN  /\ 0 <= a.num /\ a.num <= a.den
            /\ (last.raw * f.num <= 0) => a = Zero
            /\ (last.raw * f.num >= Unit * f.den) => a = One
            /\ (0 < last.raw * f.num /\ last.raw * f.num < Unit * f.den)
                  => a.num * Unit * f.den = a.den * last.raw * f.num

C14_Witness ==
    /\ last.op = "adjust_confidence"
    /\ calibration_factor = [num |-> 20, den |-> 9]
    /\ 10 * last.raw = 9 * Unit
    /\ last.adjusted = One

\* C15: duplicate ids are accepted, record_outcome acts on the first record with
\* the id, resolved already or not, and a record whose id is that of an earlier
\* record is never resolved.
C15_FirstMatchOnly ==
    /\ [](\A j \in 1..Len(predictions) :
            (\E i \in 1..(j - 1) : predictions[i].id = predictions[j].id)
                => predictions[j].correct = None /\ predictions[j].actual = None)
    /\ [][(last'.op = "record_outcome" /\ FirstWithId(predictions, last'.id) # 0)
            => predictions'[FirstWithId(predictions, last'.id)].actual
                  = Some(last'.actual)]_vars

C15_Witness ==
    /\ Len(predictions) = 3
    /\ predictions[1].id = predictions[2].id
    /\ predictions[1].id = predictions[3].id
    /\ last.op = "record_outcome"
    /\ last.id = predictions[1].id
    /\ last.before # None
    /\ predictions[1].correct # None
    /\ predictions[2].correct = None

\* C16: record_outcome with an id that no recorded prediction has raises no
\* error and changes neither the predictions nor the stored calibration_factor.
C16_UnknownIdNoOp ==
    [][(/\ last'.op = "record_outcome"
        /\ \A k \in 1..Len(predictions) : predictions[k].id # last'.id)
       => /\ predictions' = predictions
          /\ calibration_factor' = calibration_factor]_vars

C16_Witness ==
    /\ last.op = "record_outcome"
    /\ last.id = "p9"
    /\ Len(predictions) = 2
    /\ Resolved = {1}
    /\ calibration_factor # One

\* C17: correct is None until a record_outcome call acts on the record; the call
\* sets actual to its value and correct to (predicted == actual), and a later
\* call on the same record overwrites both.
C17_CorrectFlag ==
    /\ [](\A k \in 1..Len(predictions) :
            predictions[k].correct = None <=> predictions[k].actual = None)
    /\ [][LET hit == FirstWithId(predictions, last'.id)
          IN  IF last'.op = "record_outcome" /\ hit # 0
              THEN predictions' =
                      [predictions EXCEPT
                          ![hit].actual = Some(last'.actual),
                          ![hit].correct = Some(predictions[hit].predicted = last'.actual)]
              ELSE IF last'.op = "record_prediction"
              THEN /\ Len(predictions') = Len(predictions) + 1
                   /\ SubSeq(predictions', 1, Len(predictions)) = predictions
                   /\ predictions'[Len(predictions')].correct = None
                   /\ predictions'[Len(predictions')].actual = None
              ELSE predictions' = predictions]_vars

C17_Witness ==
    /\ last.op = "record_outcome"
    /\ Len(predictions) >= 1
    /\ predictions[1].id = last.id
    /\ last.before = Some(TRUE)
    /\ predictions[1].actual = Some("low")
    /\ predictions[1].correct = Some(FALSE)

-----------------------------------------------------------------------------
(* The three reasoning operations on one reasoner *)

\* one call of start_chain or of a reasoning operation per chain
NextReasoner ==
    \/ \E task_id \in TaskIds : StartChain(task_id, "q?")
    \/ \E regulation \in Regulations :
          Len(chains) < MaxChains /\ ReasonRelevance(regulation)
    \/ \E in \in SeverityInputs :
          Len(chains) < MaxChains /\ ReasonSeverity(in[1], in[2])
    \/ \E in \in CostInputs : ReasonCost(in[1], in[2])

SpecReasoner == Init /\ [][NextReasoner]_vars

\* OBSERVATION, n ANALYSIS, INFERENCE and, if v, VALIDATION
KindPattern(n, v) ==
    << OBSERVATION >> \o [k \in 1..n |-> ANALYSIS] \o << INFERENCE >>
        \o (IF v THEN << VALIDATION >> ELSE <<>>)

\* the kinds of the chain's steps are OBSERVATION, at least `least` ANALYSIS,
\* INFERENCE, at most one VALIDATION
HasShape(chain, least) ==
    \E n \in least..Len(chain.steps), v \in BOOLEAN : Kinds(chain) = KindPattern(n, v)

\* the chain was completed after its last add_step and no step was added since
SealedAfterSteps(i) ==
    /\ Sealed(chains[i])
    /\ chains[i].final_answer # None
    /\ Len(chains[i].steps) = addCalls[i]
    /\ \A k \in 1..Len(chains[i].steps) :
          /\ chains[i].steps[k].step_number = k
          /\ chains[i].steps[k].timestamp <= chains[i].completed_at[1]

ReasoningOps == {"relevance", "severity", "cost"}

\* C18 as stated: after each of the three operations the kinds of the chain's
\* steps are one OBSERVATION, one or more ANALYSIS, one INFERENCE, at most one
\* VALIDATION; the chain is sealed and its final_confidence is the confidence
\* returned.
C18_OneOrMoreAnalysis ==
    last.op \in ReasoningOps =>
        /\ HasShape(chains[last.chain], 1)
        /\ SealedAfterSteps(last.chain)
        /\ chains[last.chain].final_confidence = last.confidence

\* C18: the kinds are one OBSERVATION, then ANALYSIS steps (one or two for
\* relevance, one to three for severity, none to two for cost), then one
\* INFERENCE, then VALIDATION (at most one for relevance, exactly one for
\* severity, none for cost); the chain is sealed after the last add_step and its
\* final_confidence is the confidence returned.
C18_StepKinds ==
    last.op \in ReasoningOps =>
        LET chain == chains[last.chain]
        IN  /\ last.op = "relevance" =>
                  \E n \in 1..2, v \in BOOLEAN : Kinds(chain) = KindPattern(n, v)
            /\ last.op = "severity" =>
                  /\ ~last.raised
                  /\ \E n \in 1..3 : Kinds(chain) = KindPattern(n, TRUE)
            /\ last.op = "cost" =>
                  \E n \in 0..2 : Kinds(chain) = KindPattern(n, FALSE)
            /\ SealedAfterSteps(last.chain)
            /\ chain.final_confidence = last.confidence

C18_Witness ==
    /\ last.op = "cost"
    /\ Kinds(chains[last.chain]) = << OBSERVATION, INFERENCE >>
    /\ Sealed(chains[last.chain])
    /\ last.similar_gaps = Some(<< [id |-> "g0"] >>)
    /\ chains[last.chain].final_confidence = last.confidence

\* C19: in every chain of the three operations each step's confidence and the
\* final_confidence lie in [0,1], and the final_confidence of a chain that is
\* not completed is 0.
C19_ConfidencesInRange ==
    \A i \in 1..Len(chains) :
        /\ \A k \in 1..Len(chains[i].steps) :
              0 <= chains[i].steps[k].confidence /\ chains[i].steps[k].confidence <= Unit
        /\ 0 <= chains[i].final_confidence /\ chains[i].final_confidence <= Unit
        /\ ~Sealed(chains[i]) => chains[i].final_confidence = 0

C19_Witness ==
    /\ last.op = "severity"
    /\ Sealed(chains[last.chain])
    /\ chains[last.chain].final_confidence \in 1..(Unit - 1)
    /\ \E k \in 1..Len(chains[last.chain].steps) :
          100 * chains[last.chain].steps[k].confidence = 95 * Unit
    /\ chains[last.chain].steps[1].confidence = Unit

-----------------------------------------------------------------------------
(* Citation analysis of relevance reasoning (SpecRelevance) *)

\* the citation markers in the order the code tests them, with ten times the
\* confidence each one gives
CitationMarkers == << "40 CFR 60", "40 CFR 63", "40 CFR 98" >>
CitationTenths == << 8, 7, 6 >>
MatchedMarkers(regulation) ==
    {k \in 1..Len(CitationMarkers) :
        Contains(CitationMarkers[k], Get(regulation, "citation", ""))}
FirstMarker(regulation) ==
    CHOOSE k \in MatchedMarkers(regulation) :
        \A j \in MatchedMarkers(regulation) : k <= j
CitationSteps(chain) ==
    StepsWithContent(chain, "CFR citation analysis")

\* C24: the citation confidence is that of the first matching marker in the
\* order "40 CFR 60" (0.8), "40 CFR 63" (0.7), "40 CFR 98" (0.6), never a sum
\* over several matching markers; the chain has exactly one citation ANALYSIS
\* step when a marker matches and none otherwise.
C24_FirstMarkerWins ==
    last.op = "relevance" =>
        LET chain == chains[last.chain]
            matched == MatchedMarkers(last.regulation)
            cit == CitationSteps(chain)
        IN  IF matched = {}
            THEN cit = {}
            ELSE /\ Cardinality(cit) = 1
                 /\ \A k \in cit :
                        /\ chain.steps[k].step_type = ANALYSIS
                        /\ 10 * chain.steps[k].confidence
                              = CitationTenths[FirstMarker(last.regulation)] * Unit
                        /\ Len(chain.steps[k].evidence) = 1

\* a citation naming part 98 before part 60 is scored as part 60, after a call
\* whose citation matched no marker
C24_Witness ==
    /\ last.op = "relevance"
    /\ Cardinality(MatchedMarkers(last.regulation)) = 2
    /\ FirstMarker(last.regulation) = 1
    /\ Len(chains) = 2
    /\ CitationSteps(chains[1]) = {}
    /\ \E k \in CitationSteps(chains[2]) :
            10 * chains[2].steps[k].confidence = 8 * Unit

-----------------------------------------------------------------------------
(* Range of severity reasoning (SpecSeverity) *)

\* C29: reason_about_gap_severity returns only "medium" or "high": the
\* enforcement and facility factors are each medium or high, so with any
\* deadline factor the average score is at least 5/3 and at most 10/3, never
\* reaching 3.5 nor falling below 1.5.
C29_OnlyMediumOrHigh ==
    (last.op = "severity" /\ ~last.raised) =>
        /\ last.severity \in {"medium", "high"}
        /\ chains[last.chain].final_answer \in {Some("MEDIUM"), Some("HIGH")}
        /\ InferenceStep.evidence[2] \in
                {"Enforcement factor: medium", "Enforcement factor: high"}
        /\ InferenceStep.evidence[3] \in
                {"Facility factor: medium", "Facility factor: high"}
        /\ \E d \in FactorLabels :
              /\ InferenceStep.evidence[1] = "Deadline factor: " \o d
              /\ \A en \in {"medium", "high"}, f \in {"medium", "high"} :
                    LET total == LabelScore(d) + LabelScore(en) + LabelScore(f)
                    IN  2 * total < 7 * 3 /\ 2 * total >= 3 * 3

\* the two extremes: critical deadline, high enforcement and a major source
\* give "high"; before it, low deadline, medium enforcement and a minor source
\* gave "medium"
C29_Witness ==
    /\ last.op = "severity"
    /\ InferenceStep.evidence[1] = "Deadline factor: critical"
    /\ InferenceStep.evidence[2] = "Enforcement factor: high"
    /\ InferenceStep.evidence[3] = "Facility factor: high"
    /\ last.severity = "high"
    /\ last.prev.op = "severity"
    /\ last.prev.severity = "medium"
    /\ chains[1].steps[Len(chains[1].steps) - 1].evidence
          = << "Deadline factor: low", "Enforcement factor: medium",
               "Facility factor: medium", "Average score: 1.67" >>

-----------------------------------------------------------------------------
(* Sign of the cost estimate (SpecCost) *)

\* C30: for every gap and every list of similar gaps with non-negative costs
\* the estimated_cost returned is strictly positive and lies within the range
\* returned with it, also when the quantity extracted from the description is 0.
C30_PositiveWithinRange ==
    last.op = "cost" =>
        /\ last.estimated_cost > 0
        /\ last.cost_range[1] <= last.estimated_cost
        /\ last.estimated_cost <= last.cost_range[2]

-----------------------------------------------------------------------------
(* The reasoner's list of chains under any mix of its operations *)

MaxOps == 2

ChainRegulations ==
    { [id |-> "r1", title |-> "Methane and VOC Limits", description |-> "",
       citation |-> "40 CFR 60 Subpart OOOOa"],
      [id |-> "r2", citation |-> "40 CFR 60"],
      [title |-> "Pneumatic devices"] }
ChainSeverityInputs ==
    { <<Gap("NSPS-LDAR-2024", "2026-03-01"), Facility(TRUE)>>,
      <<Gap("state-rule-7", "garbage"), Facility(FALSE)>>,
      <<[regulation_id |-> "40 CFR 60 Subpart OOOOb"], [name |-> "Unnamed pad"]>> }
ChainCostInputs ==
    { << [id |-> "g4", title |-> "pneumatic", description |-> "15 controllers"], None >>,
      << [id |-> "g1", title |-> "Housekeeping", description |-> ""],
         Some(<< [actual_cost |-> 10000] >>) >>,
      << [description |-> "007 sources"], None >> }

ChainSeverityFrom(gap, facility, f) ==
    reason_about_gap_severity(gap, facility, f, severity_result(f))
ChainSeverity(gap, facility) ==
    ChainSeverityFrom(gap, facility, severity_factors(gap, facility, now))
ChainCostFrom(gap, similar_gaps, b) ==
    reason_about_remediation_cost(gap, similar_gaps, b, cost_result(b))
ChainCost(gap, similar_gaps) ==
    ChainCostFrom(gap, similar_gaps, cost_basis(gap, similar_gaps))

\* MaxOps calls of start_chain and of the three reasoning operations, in any
\* order, on one reasoner
NextChains ==
    /\ Len(chains) < MaxOps
    /\ \/ \E task_id \in TaskIds : start_chain(task_id, "q?")
       \/ \E regulation \in ChainRegulations :
             reason_about_regulation_relevance(regulation)
       \/ \E in \in ChainSeverityInputs : ChainSeverity(in[1], in[2])
       \/ \E in \in ChainCostInputs : ChainCost(in[1], in[2])

SpecChains == Init /\ [][NextChains]_vars

\* the task id the latest call gave its chain
CallTaskIds(call) ==
    IF call.op = "relevance" THEN {"rel_" \o Get(call.regulation, "id", "unknown")}
    ELSE IF call.op = "severity" THEN {"sev_" \o Get(call.gap, "id", "unknown")}
    ELSE IF call.op = "cost" THEN {"cost_" \o Get(call.gap, "id", "unknown")}
    ELSE TaskIds

\* C25: the chains list is append-only: every start_chain call and every call
\* of the three reasoning operations appends exactly one chain tagged with the
\* reasoner's agent_type and leaves the chains added earlier in their places,
\* so after k calls the list holds k chains in call order.
C25_AppendOnly ==
    [][ /\ Len(chains') = Len(chains) + 1
        /\ SubSeq(chains', 1, Len(chains)) = chains
        /\ chains'[Len(chains')].agent_type = AgentType
        /\ chains'[Len(chains')].task_id \in CallTaskIds(last')
        /\ last'.chain = Len(chains')
        /\ Len(addCalls') = Len(chains') ]_vars

\* a cost call made after a start_chain call: two chains, in that order
C25_Witness ==
    /\ Len(chains) = 2
    /\ chains[1].task_id \in TaskIds
    /\ chains[1].steps = <<>>
    /\ last.op = "cost"
    /\ last.chain = 2
    /\ chains[2].task_id = "cost_g4"

-----------------------------------------------------------------------------
(* The stored calibration factor (SpecCalibrator) *)

\* C26: calibration_factor starts at 1.0 and changes only in a
\* calculate_calibration call that sees at least one resolved record;
\* record_prediction, record_outcome, adjust_confidence and a
\* calculate_calibration with no resolved record leave it unchanged, and
\* adjust_confidence multiplies by the stored factor, whatever outcomes were
\* recorded since it was stored.
C26_FactorChangesOnlyInCalibration ==
    /\ calibration_factor = One
    /\ [][ /\ calibration_factor' # calibration_factor
                => (last'.op = "calculate_calibration" /\ Resolved # {})
           /\ last'.op \in {"record_prediction", "record_outcome", "adjust_confidence"}
                => calibration_factor' = calibration_factor
           /\ (last'.op = "calculate_calibration" /\ Resolved = {})
                => calibration_factor' = calibration_factor
           /\ last'.op = "adjust_confidence"
                => LET f == calibration_factor
                       a == last'.adjusted
                       raw == last'.raw
                   IN  /\ (raw * f.num <= 0) => a = Zero
                       /\ (raw * f.num >= Unit * f.den) => a = One
                       /\ (0 < raw * f.num /\ raw * f.num < Unit * f.den)
                             => a.num * Unit * f.den = a.den * raw * f.num
         ]_vars

\* adjust_confidence used a stored factor that the records resolved by now no
\* longer give: 0.9 scaled by the stored 20/27 although every resolved record
\* is now correct
C26_Witness ==
    /\ last.op = "adjust_confidence"
    /\ calibration_factor = [num |-> 20, den |-> 27]
    /\ Resolved # {}
    /\ Correct = Resolved
    /\ 10 * last.raw = 9 * Unit
    /\ last.adjusted = [num |-> 2, den |-> 3]

-----------------------------------------------------------------------------
(* Two callers of add_step on one chain *)

MaxAdds == 2        \* add_step calls each caller makes

Callers == {"a", "b"}

\* the callers share the first chain of the reasoner; `serialized` says whether
\* they wrap each add_step call in a common mutex
InitThreads ==
    /\ chains = << ReasoningChain("t1", AgentType, "q?", 0) >>
    /\ now = 0
    /\ addCalls = << 0 >>
    /\ last = NoCall
    /\ predictions = <<>>
    /\ calibration_factor = [num |-> 1, den |-> 1]
    /\ \E serialized \in BOOLEAN :
          threads = [serialized |-> serialized, lock |-> None,
                     callers |-> [c \in Callers |->
                                    [pc |-> "idle", step_number |-> 0, calls |-> 0]]]
    /\ context = NoContext
    /\ crew = NoRun

\* a variant where the mutex is taken whoever holds it
CallAddStep_NoExclusion(c) ==
    /\ threads.callers[c].pc = "idle"
    /\ threads.callers[c].calls < MaxAdds
    /\ threads' = [threads EXCEPT !.callers[c].pc = "read",
                                  !.lock = IF threads.serialized THEN Some(c) ELSE @]
    /\ UNCHANGED <<reasoner, last, calibrator, context, crew>>

\* caller c enters chain.add_step(...), after taking the mutex if the callers
\* are serialized
CallAddStep(c) ==
    /\ threads.callers[c].pc = "idle"
    /\ threads.callers[c].calls < MaxAdds
    /\ threads.serialized => threads.lock = None
    /\ threads' = [threads EXCEPT !.callers[c].pc = "read",
                                  !.lock = IF threads.serialized THEN Some(c) ELSE @]
    /\ UNCHANGED <<reasoner, last, calibrator, context, crew>>

\* step_number=len(self.steps) + 1: the count is read and the step built
ReadStepCount(c) ==
    /\ threads.callers[c].pc = "read"
    /\ threads' = [threads EXCEPT !.callers[c].pc = "append",
                                  !.callers[c].step_number = NextStepNumber(chains[1])]
    /\ UNCHANGED <<reasoner, last, calibrator, context, crew>>

\* self.steps.append(step); return step (and the mutex is given back)
AppendStep(c) ==
    /\ threads.callers[c].pc = "append"
    /\ chains' = [chains EXCEPT ![1].steps =
                    Append(@, ReasoningStep(threads.callers[c].step_number, DECISION,
                                            "from " \o c, Unit \div 2, <<>>, now))]
    /\ addCalls' = [addCalls EXCEPT ![1] = @ + 1]
    /\ last' = [op |-> "add_step", chain |-> 1, caller |-> c,
                step_number |-> threads.callers[c].step_number]
    /\ threads' = [threads EXCEPT !.callers[c].pc = "idle",
                                  !.callers[c].calls = @ + 1,
                                  !.lock = None]
    /\ UNCHANGED <<now, calibrator, context, crew>>

NextThreads ==
    \E c \in Callers : CallAddStep(c) \/ ReadStepCount(c) \/ AppendStep(c)

SpecThreads == InitThreads /\ [][NextThreads]_vars

\* two steps of the shared chain carry the same step number
DuplicateStepNumber ==
    \E j, k \in 1..Len(chains[1].steps) :
        j # k /\ chains[1].steps[j].step_number = chains[1].steps[k].step_number

\* C27: when two callers run add_step on one chain with the read of the step
\* count and the append interleaved, two steps can carry the same step number;
\* when the calls are serialized no such state is reachable (the steps are
\* numbered 1, 2, 3, ... in list order).
C27_SerializedNumbersDistinct ==
    threads.serialized =>
        /\ ~DuplicateStepNumber
        /\ \A k \in 1..Len(chains[1].steps) : chains[1].steps[k].step_number = k

\* without serialization: both callers read the count 0 before either appended,
\* and both steps are numbered 1
C27_Witness ==
    /\ ~threads.serialized
    /\ DuplicateStepNumber
    /\ Len(chains[1].steps) = 2
    /\ chains[1].steps[1].step_number = 1
    /\ chains[1].steps[2].step_number = 1
    /\ chains[1].steps[1].content # chains[1].steps[2].content

-----------------------------------------------------------------------------
(* AgentContext: the shared lists and their summary *)

MaxItems == 2       \* items added to each list of the context

\* AgentContext.__init__
AgentContext(t) ==
    [regulations |-> <<>>, facilities |-> <<>>, gaps |-> <<>>, decisions |-> <<>>,
     alerts |-> <<>>, created_at |-> t]

\* len([g for g in gaps if g.get("severity") == severity])
RECURSIVE CountSeverity(_, _)
CountSeverity(gaps, severity) ==
    IF gaps = <<>> THEN 0
    ELSE (IF Get(gaps[1], "severity", "") = severity THEN 1 ELSE 0)
         + CountSeverity(Tail(gaps), severity)

\* AgentContext.get_summary: the dict it returns
get_summary(ctx) ==
    [regulations_count |-> Len(ctx.regulations),
     facilities_count |-> Len(ctx.facilities),
     gaps_count |-> Len(ctx.gaps),
     decisions_count |-> Len(ctx.decisions),
     alerts_count |-> Len(ctx.alerts),
     critical_gaps |-> CountSeverity(ctx.gaps, "critical"),
     created_at |-> isoformat(ctx.created_at)]

ContextGaps ==
    { [id |-> "gap-1", severity |-> "critical"],
      [id |-> "gap-2", severity |-> "high"],
      [id |-> "gap-4"] }

InitContext ==
    /\ chains = <<>>
    /\ now = 0
    /\ addCalls = <<>>
    /\ last = NoCall
    /\ predictions = <<>>
    /\ calibration_factor = [num |-> 1, den |-> 1]
    /\ threads = NoThreads
    /\ context = AgentContext(0)
    /\ crew = NoRun

\* AgentContext.add_regulation(regulation)
AddRegulation(regulation) ==
    /\ Len(context.regulations) < MaxItems
    /\ context' = [context EXCEPT !.regulations = Append(@, regulation)]
    /\ last' = [op |-> "add_regulation"]
    /\ UNCHANGED <<reasoner, calibrator, threads, crew>>

\* AgentContext.add_facility(facility)
AddFacility(facility) ==
    /\ Len(context.facilities) < MaxItems
    /\ context' = [context EXCEPT !.facilities = Append(@, facility)]
    /\ last' = [op |-> "add_facility"]
    /\ UNCHANGED <<reasoner, calibrator, threads, crew>>

\* AgentContext.add_gap(gap)
AddGap(gap) ==
    /\ Len(context.gaps) < MaxItems
    /\ context' = [context EXCEPT !.gaps = Append(@, gap)]
    /\ last' = [op |-> "add_gap"]
    /\ UNCHANGED <<reasoner, calibrator, threads, crew>>

\* AgentContext.add_decision(decision)
AddDecision(decision) ==
    /\ Len(context.decisions) < MaxItems
    /\ context' = [context EXCEPT !.decisions = Append(@, decision)]
    /\ last' = [op |-> "add_decision"]
    /\ UNCHANGED <<reasoner, calibrator, threads, crew>>

\* AgentContext.add_alert(alert), or context.alerts.append(alert)
AddAlert(alert) ==
    /\ Len(context.alerts) < MaxItems
    /\ context' = [context EXCEPT !.alerts = Append(@, alert)]
    /\ last' = [op |-> "add_alert"]
    /\ UNCHANGED <<reasoner, calibrator, threads, crew>>

\* summary = context.get_summary()
GetSummary ==
    /\ last' = [op |-> "get_summary", summary |-> get_summary(context)]
    /\ UNCHANGED <<reasoner, calibrator, threads, context, crew>>

NextContext ==
    \/ AddRegulation([id |-> "reg-1"])
    \/ AddFacility([id |-> "fac-1"])
    \/ \E gap \in ContextGaps : AddGap(gap)
    \/ AddDecision([agent_type |-> "test_agent", action |-> "test_action"])
    \/ AddAlert([type |-> "deadline", message |-> "Test alert"])
    \/ GetSummary

SpecContext == InitContext /\ [][NextContext]_vars

\* the gaps of the context whose severity is the one given
GapsOfSeverity(severity) ==
    {k \in 1..Len(context.gaps) :
        "severity" \in DOMAIN context.gaps[k] /\ context.gaps[k].severity = severity}

\* C21: after any sequence of additions get_summary reports the five counts
\* equal to the numbers of items added of each kind, critical_gaps equal to the
\* number of gaps of severity "critical" and high_gaps equal to the number of
\* gaps of severity "high".
C21_SummaryCounts ==
    last.op = "get_summary" =>
        /\ last.summary.regulations_count = Len(context.regulations)
        /\ last.summary.facilities_count = Len(context.facilities)
        /\ last.summary.gaps_count = Len(context.gaps)
        /\ last.summary.decisions_count = Len(context.decisions)
        /\ last.summary.alerts_count = Len(context.alerts)
        /\ last.summary.critical_gaps = Cardinality(GapsOfSeverity("critical"))
        /\ "high_gaps" \in DOMAIN last.summary
        /\ last.summary.high_gaps = Cardinality(GapsOfSeverity("high"))

-----------------------------------------------------------------------------
(* ReportGeneratorAgent._generate_gap_analysis_report: the compliance score *)

MaxSame == 7        \* gaps of one severity in a list of gaps

Severities == << "critical", "high", "medium", "low" >>

\* severity = gap.get("severity", "medium")
severity_of(gap) == Get(gap, "severity", "medium")

\* gaps_by_severity[severity].append(gap) raises KeyError for any other key
raises_KeyError(gaps) ==
    \E k \in 1..Len(gaps) : \A j \in 1..Len(Severities) : severity_of(gaps[k]) # Severities[j]

\* the dict of lists the loop over (gaps or []) fills
SameSeverity(gaps, severity) ==
    SelectSeq(gaps, LAMBDA gap : severity_of(gap) = severity)
gaps_by_severity(gaps) ==
    [critical |-> SameSeverity(gaps, "critical"), high |-> SameSeverity(gaps, "high"),
     medium |-> SameSeverity(gaps, "medium"), low |-> SameSeverity(gaps, "low")]

Max(a, b) == IF a >= b THEN a ELSE b

\* score = max(0, 100 - critical * 15 - high * 8 - medium * 3 - low * 1)
compliance_score_NoFloor(by) ==
    100 - (Len(by.critical) * 15) - (Len(by.high) * 8)
        - (Len(by.medium) * 3) - (Len(by.low) * 1)
compliance_score(by) ==
    Max(0, 100 - (Len(by.critical) * 15) - (Len(by.high) * 8)
               - (Len(by.medium) * 3) - (Len(by.low) * 1))

\* n gaps of one severity
GapsOf(severity, n) == [k \in 1..n |-> [id |-> "gap", severity |-> severity]]

\* lists of gaps: every mix of up to MaxSame gaps of each severity, the list of
\* the tests, a gap without severity, and a severity outside the four
GapLists ==
    { GapsOf("critical", a) \o GapsOf("high", b) \o GapsOf("medium", c) \o GapsOf("low", d) :
        a \in 0..MaxSame, b \in 0..2, c \in 0..2, d \in 0..1 }
    \cup { << [severity |-> "low"], [severity |-> "high"], [severity |-> "critical"],
              [severity |-> "medium"], [severity |-> "high"] >>,
           << [id |-> "gap-1"], [id |-> "gap-2", severity |-> "low"] >>,
           << [id |-> "gap-3", severity |-> "info"] >> }

\* the call, given the grouping it builds: the score, unless the grouping raised
GenerateGapAnalysisReportWith(gaps, by) ==
    /\ last' = IF raises_KeyError(gaps)
               THEN [op |-> "gap_analysis_report", gaps |-> gaps, raised |-> TRUE]
               ELSE [op |-> "gap_analysis_report", gaps |-> gaps, raised |-> FALSE,
                     score |-> compliance_score(by)]
    /\ UNCHANGED <<reasoner, calibrator, outside>>

\* ReportGeneratorAgent._generate_gap_analysis_report(facilities, gaps)
GenerateGapAnalysisReport(gaps) ==
    GenerateGapAnalysisReportWith(gaps, gaps_by_severity(gaps))

NextReport == \E gaps \in GapLists : GenerateGapAnalysisReport(gaps)

SpecReport == Init /\ [][NextReport]_vars

\* how many gaps of the latest call carry the severity given
GapCount(severity) ==
    Cardinality({k \in 1..Len(last.gaps) :
        "severity" \in DOMAIN last.gaps[k] /\ last.gaps[k].severity = severity})

-----------------------------------------------------------------------------
(* GapAnalyzerAgent._calculate_risk_score, in hundredths *)

\* severity_scores.get(gap.get("severity", "medium"), 0.5)
risk_severity_scores(severity) ==
    IF severity = "critical" THEN 95
    ELSE IF severity = "high" THEN 75
    ELSE IF severity = "medium" THEN 50
    ELSE IF severity = "low" THEN 25
    ELSE 50

\* date.fromisoformat(str(deadline)): the ordinal of a "YYYY-MM-DD" string, None
\* when it raises ValueError (a string that carries a time of day does)
date_fromisoformat(s) ==
    IF Len(s) = 10 /\ ValidDate(s)
    THEN Some(Ordinal(Num(SubSeq(s, 1, 4)), Num(SubSeq(s, 6, 7)), Num(SubSeq(s, 9, 10))))
    ELSE None

\* date.today() at clock value t
today(t) == EpochOrdinal + t \div HoursPerDay

\* the deadline adjustment: try / except around the parse and the two bands
deadline_adjusted(base_score, parsed, t) ==
    IF parsed = None THEN base_score
    ELSE IF parsed[1] - today(t) < 30 THEN Min(100, base_score + 20)
    ELSE IF parsed[1] - today(t) < 90 THEN Min(100, base_score + 10)
    ELSE base_score

\* the enforcement adjustment on gap.get("enforcement_risk", "").lower()
enforcement_adjusted(base_score, enforcement_risk) ==
    IF Contains("high", enforcement_risk) \/ Contains("priority", enforcement_risk)
    THEN Min(100, base_score + 10)
    ELSE base_score

\* a variant without the min(1.0, ...) caps
calculate_risk_score_Uncapped(gap, t) ==
    LET base == risk_severity_scores(Get(gap, "severity", "medium"))
        deadline == Get(gap, "regulatory_deadline", "")
        parsed == IF deadline = "" THEN None ELSE date_fromisoformat(deadline)
        days == IF parsed = None THEN 90 ELSE parsed[1] - today(t)
        enforcement_risk == lower(Get(gap, "enforcement_risk", ""))
    IN  base + (IF days < 30 THEN 20 ELSE IF days < 90 THEN 10 ELSE 0)
             + (IF Contains("high", enforcement_risk) \/ Contains("priority", enforcement_risk)
                THEN 10 ELSE 0)

\* GapAnalyzerAgent._calculate_risk_score(gap); round(base_score, 2) keeps the
\* hundredths
calculate_risk_score(gap, t) ==
    LET base == risk_severity_scores(Get(gap, "severity", "medium"))
        deadline == Get(gap, "regulatory_deadline", "")
        parsed == IF deadline = "" THEN None ELSE date_fromisoformat(deadline)
    IN  enforcement_adjusted(deadline_adjusted(base, parsed, t),
                             lower(Get(gap, "enforcement_risk", "")))

RiskSeverities == {"critical", "high", "medium", "low", "info"}
RiskDeadlines ==
    { "2025-12-01",             \* passed
      "2026-01-16",             \* 15 days away
      "2026-03-01",             \* 59 days away
      "2026-06-30",             \* 180 days away
      "2026-01-16T10:30:00" }   \* datetime.isoformat(), as the tests pass it
RiskEnforcement == {"High - EPA priority program", "PRIORITY", "routine"}

\* a gap with each of the three fields present or absent
RiskGaps ==
    { [id |-> "gap-1", severity |-> s, regulatory_deadline |-> d, enforcement_risk |-> e] :
        s \in RiskSeverities, d \in RiskDeadlines, e \in RiskEnforcement }
    \cup { [id |-> "gap-2", severity |-> s, enforcement_risk |-> e] :
            s \in RiskSeverities, e \in RiskEnforcement }
    \cup { [id |-> "gap-3", severity |-> s, regulatory_deadline |-> d] :
            s \in RiskSeverities, d \in RiskDeadlines }
    \cup { [id |-> "gap-4", severity |-> s] : s \in RiskSeverities }
    \cup { [id |-> "gap-5"], [id |-> "gap-6", regulatory_deadline |-> "2026-01-16"] }

\* score = agent._calculate_risk_score(gap)
CalculateRiskScore(gap) ==
    /\ last' = [op |-> "risk_score", gap |-> gap, score |-> calculate_risk_score(gap, now)]
    /\ UNCHANGED <<reasoner, calibrator, outside>>

NextRisk == \E gap \in RiskGaps : CalculateRiskScore(gap)

SpecRisk == Init /\ [][NextRisk]_vars

\* the gap of the latest call: whether it has a deadline, whether that deadline
\* is the date 180 days after the clock's day, and whether its enforcement note
\* mentions "high" or "priority"
HasDeadline == Get(last.gap, "regulatory_deadline", "") # ""
DeadlineIn180Days ==
    /\ HasDeadline
    /\ ValidDate(last.gap.regulatory_deadline)
    /\ LET s == last.gap.regulatory_deadline
       IN  Ordinal(Num(SubSeq(s, 1, 4)), Num(SubSeq(s, 6, 7)), Num(SubSeq(s, 9, 10)))
              = EpochOrdinal + now \div HoursPerDay + 180
EnforcementFlagged ==
    \/ Contains("high", lower(Get(last.gap, "enforcement_risk", "")))
    \/ Contains("priority", lower(Get(last.gap, "enforcement_risk", "")))
SeverityIs(severity) ==
    "severity" \in DOMAIN last.gap /\ last.gap.severity = severity

-----------------------------------------------------------------------------
(* EnviroComplyCrew.run_full_analysis *)

\* what an awaited agent can raise: an Exception, or a BaseException that is not
\* one (asyncio.CancelledError when the task is cancelled at the await)
RaiseKinds == {"Exception", "CancelledError"}

\* except Exception as e
crew_catches_Nothing(kind) == FALSE
crew_catches(kind) == kind = "Exception"

\* report_types or [ReportType.GAP_ANALYSIS, ReportType.EXECUTIVE_SUMMARY]
default_report_types == << "gap_analysis", "executive_summary" >>
report_types_or_default(report_types) ==
    IF report_types = None \/ report_types = Some(<<>>) THEN default_report_types
    ELSE report_types[1]

\* start_time.strftime('%Y%m%d_%H%M%S') within the first month of the clock
strftime(t) ==
    "202601" \o TwoDigits(t \div HoursPerDay + 1) \o "_" \o TwoDigits(t % HoursPerDay) \o "0000"

\* the results dict as first built
initial_results(start_time) ==
    [analysis_id |-> "analysis_" \o strftime(start_time),
     started_at |-> isoformat(start_time),
     facilities_analyzed |-> 0,
     regulations_found |-> 0,
     gaps_identified |-> 0,
     reports_generated |-> <<>>,
     phases |-> <<>>]

\* results["error"] = str(e)
with_error(results, kind) == ("error" :> kind) @@ results

\* the lines after the try block: completed_at and duration_seconds
finalize(results, start_time, end_time) ==
    ("completed_at" :> isoformat(end_time))
        @@ ("duration_seconds" :> (end_time - start_time) * 3600) @@ results

\* for facility in facilities: self.context.add_facility(facility)
RECURSIVE add_facilities(_, _)
add_facilities(ctx, facilities) ==
    IF facilities = <<>> THEN ctx
    ELSE add_facilities([ctx EXCEPT !.facilities = Append(@, facilities[1])],
                        Tail(facilities))

\* the events of a run: each awaited call, and its return or raise
ReportPhase(type) == "report_generation:" \o type
Called(phase) == [ev |-> "call", phase |-> phase]
Returned(phase) == [ev |-> "return", phase |-> phase]
Raised(phase, kind) == [ev |-> "raise", phase |-> phase, kind |-> kind]

\* sample arguments and sample results of the awaited agents
CrewFacilities == { None, Some(<< [facility_id |-> "fac-1"] >>) }
CrewReportTypes ==
    { None, Some(<< "executive_summary" >>),
      Some(<< "regulatory_briefing", "gap_analysis" >>) }
RegResults ==
    { [new_regulations |-> << "reg-1" >>, amended_regulations |-> << "reg-2" >>],
      [alerts |-> << "a1" >>] }
LoadedFacilities == { <<>>, << [facility_id |-> "stored-1"], [facility_id |-> "stored-2"] >> }
ImpactResults == { [assessments |-> << "as-1" >>, total_estimated_cost |-> 5000] }
GapResults == { [gap_summary |-> [total |-> 3, critical |-> 1]], [gaps |-> <<>>] }
Reports == { [file_path |-> "reports/r.pdf", compliance_score |-> 65] }

InitCrew ==
    /\ chains = <<>>
    /\ now = 0
    /\ addCalls = <<>>
    /\ last = NoCall
    /\ predictions = <<>>
    /\ calibration_factor = [num |-> 1, den |-> 1]
    /\ threads = NoThreads
    /\ context = AgentContext(0)
    /\ crew = NoRun

\* run_full_analysis(facilities, lookback_days, report_types) up to its first
\* await: results is built and the regulation monitor called
RunFullAnalysis(facilities, report_types) ==
    /\ crew.pc = "idle"
    /\ crew' = [pc |-> "regulation_monitoring",
                facilities |-> facilities,
                report_types |-> report_types,
                requested |-> report_types,
                next_report |-> 1,
                start_time |-> now,
                results |-> initial_results(now),
                trace |-> << Called("regulation_monitoring") >>]
    /\ UNCHANGED <<reasoner, last, calibrator, threads, context>>

\* the facilities are in hand: they are added to the context and the impact
\* assessor is called
to_impact_assessment(run, facilities, events) ==
    /\ context' = add_facilities(context, facilities)
    /\ crew' = [run EXCEPT !.pc = "impact_assessment",
                           !.facilities = Some(facilities),
                           !.results.facilities_analyzed = Len(facilities),
                           !.trace = @ \o events \o << Called("impact_assessment") >>]

\* the regulation monitor returns reg_results
RegulationMonitorReturns(reg_results) ==
    /\ crew.pc = "regulation_monitoring"
    /\ LET new == Len(Get(reg_results, "new_regulations", <<>>))
           amended == Len(Get(reg_results, "amended_regulations", <<>>))
           run == [crew EXCEPT
                     !.results.phases =
                        ("regulation_monitoring" :>
                            [new_regulations |-> new, amended_regulations |-> amended,
                             alerts |-> Len(Get(reg_results, "alerts", <<>>))]) @@ @,
                     !.results.regulations_found = new + amended]
       IN  IF crew.facilities = None \/ crew.facilities = Some(<<>>)
           THEN /\ crew' = [run EXCEPT !.pc = "load_facilities",
                                       !.trace = @ \o << Returned("regulation_monitoring"),
                                                         Called("load_facilities") >>]
                /\ UNCHANGED context
           ELSE to_impact_assessment(run, crew.facilities[1],
                                     << Returned("regulation_monitoring") >>)
    /\ UNCHANGED <<reasoner, last, calibrator, threads>>

\* facilities = await self._load_facilities() returns
LoadFacilitiesReturns(facilities) ==
    /\ crew.pc = "load_facilities"
    /\ to_impact_assessment(crew, facilities, << Returned("load_facilities") >>)
    /\ UNCHANGED <<reasoner, last, calibrator, threads>>

\* the impact assessor returns impact_results
ImpactAssessorReturns(impact_results) ==
    /\ crew.pc = "impact_assessment"
    /\ crew' = [crew EXCEPT
                  !.pc = "gap_analysis",
                  !.results.phases =
                     ("impact_assessment" :>
                        [assessments |-> Len(Get(impact_results, "assessments", <<>>)),
                         high_impact_facilities |->
                            Len(Get(impact_results, "high_impact_facilities", <<>>)),
                         total_estimated_cost |->
                            Get(impact_results, "total_estimated_cost", 0)]) @@ @,
                  !.trace = @ \o << Returned("impact_assessment"), Called("gap_analysis") >>]
    /\ UNCHANGED <<reasoner, last, calibrator, threads, context>>

\* the gap analyzer returns gap_results; the first report is asked for
GapAnalyzerReturns(gap_results) ==
    /\ crew.pc = "gap_analysis"
    /\ LET types == report_types_or_default(crew.report_types)
           summary == Get(gap_results, "gap_summary", <<>>)
       IN  crew' = [crew EXCEPT
                      !.pc = "report_generation",
                      !.report_types = Some(types),
                      !.next_report = 1,
                      !.results.phases = ("gap_analysis" :> summary) @@ @,
                      !.results.gaps_identified = Get(summary, "total", 0),
                      !.trace = @ \o << Returned("gap_analysis"), Called(ReportPhase(types[1])) >>]
    /\ UNCHANGED <<reasoner, last, calibrator, threads, context>>

\* the run ends: the results are finalized and returned to the caller
returns(run, events) ==
    /\ crew' = [run EXCEPT !.pc = "returned",
                           !.results = finalize(@, crew.start_time, now),
                           !.trace = @ \o events]
    /\ last' = [op |-> "run_full_analysis",
                results |-> finalize(run.results, crew.start_time, now)]

\* the report generator returns a report; the next type is asked for, or the
\* loop ends and the run returns
ReportGeneratorReturns(report) ==
    /\ crew.pc = "report_generation"
    /\ LET types == crew.report_types[1]
           type == types[crew.next_report]
           run == [crew EXCEPT
                     !.results.reports_generated =
                        Append(@, [type |-> type,
                                   file_path |-> Get(report, "file_path", "None"),
                                   compliance_score |-> Get(report, "compliance_score", "None")])]
       IN  IF crew.next_report < Len(types)
           THEN /\ crew' = [run EXCEPT !.next_report = @ + 1,
                                       !.trace = @ \o << Returned(ReportPhase(type)),
                                                         Called(ReportPhase(types[crew.next_report + 1])) >>]
                /\ UNCHANGED last
           ELSE returns([run EXCEPT !.results.phases =
                            ("report_generation" :>
                                [reports_count |-> Len(run.results.reports_generated)]) @@ @],
                        << Returned(ReportPhase(type)) >>)
    /\ UNCHANGED <<reasoner, calibrator, threads, context>>

\* what the run is awaiting
Awaited ==
    IF crew.pc = "report_generation"
    THEN ReportPhase(crew.report_types[1][crew.next_report])
    ELSE crew.pc

\* the awaited call raises: an Exception is logged, stored in results["error"]
\* and the run returns; anything else leaves run_full_analysis
PhaseRaises(kind) ==
    /\ crew.pc \in {"regulation_monitoring", "load_facilities", "impact_assessment",
                    "gap_analysis", "report_generation"}
    /\ IF crew_catches(kind)
       THEN returns([crew EXCEPT !.results = with_error(@, kind)],
                    << Raised(Awaited, kind) >>)
       ELSE /\ crew' = [crew EXCEPT !.pc = "propagated",
                                    !.trace = @ \o << Raised(Awaited, kind) >>]
            /\ UNCHANGED last
    /\ UNCHANGED <<reasoner, calibrator, threads, context>>

\* the clock advances while a call is awaited
CrewTick ==
    /\ crew.pc \notin {"idle", "returned", "propagated"}
    /\ now < MaxTime
    /\ now' = now + 1
    /\ UNCHANGED <<chains, addCalls, last, calibrator, outside>>

NextCrew ==
    \/ \E facilities \in CrewFacilities, report_types \in CrewReportTypes :
          RunFullAnalysis(facilities, report_types)
    \/ \E reg_results \in RegResults : RegulationMonitorReturns(reg_results)
    \/ \E facilities \in LoadedFacilities : LoadFacilitiesReturns(facilities)
    \/ \E impact_results \in ImpactResults : ImpactAssessorReturns(impact_results)
    \/ \E gap_results \in GapResults : GapAnalyzerReturns(gap_results)
    \/ \E report \in Reports : ReportGeneratorReturns(report)
    \/ \E kind \in RaiseKinds : PhaseRaises(kind)
    \/ CrewTick

SpecCrew == InitCrew /\ [][NextCrew]_vars

-----------------------------------------------------------------------------
(* Properties of run_full_analysis (SpecCrew) *)

\* the phases in the order claimed, for the report types asked for
RequestedTypes ==
    IF crew.requested \in {None, Some(<<>>)}
    THEN << "gap_analysis", "executive_summary" >>
    ELSE crew.requested[1]
PhaseOrder ==
    << "regulation_monitoring", "impact_assessment", "gap_analysis" >>
        \o [k \in 1..Len(RequestedTypes) |-> "report_generation:" \o RequestedTypes[k]]

\* the phases called so far, in the order of their calls (the loading of stored
\* facilities is not one of the four phases)
PhaseCalls ==
    SelectSeq(crew.trace, LAMBDA e : e.ev = "call" /\ e.phase # "load_facilities")

\* the phases are called in the order claimed, each call comes right after the
\* return of the call before it, and nothing is called after a raise
PhasesInOrder ==
    /\ Len(PhaseCalls) <= Len(PhaseOrder)
    /\ \A k \in 1..Len(PhaseCalls) : PhaseCalls[k].phase = PhaseOrder[k]
    /\ \A k \in 1..Len(crew.trace) :
          IF k % 2 = 1
          THEN /\ crew.trace[k].ev = "call"
               /\ k > 1 => crew.trace[k - 1].ev = "return"
          ELSE /\ crew.trace[k].ev \in {"return", "raise"}
               /\ crew.trace[k].phase = crew.trace[k - 1].phase
    /\ \A k \in 1..Len(crew.trace) : crew.trace[k].ev = "raise" => k = Len(crew.trace)

\* the run ended by a raise of one of the kinds given
EndedByRaise(kinds) ==
    /\ Len(crew.trace) > 0
    /\ crew.trace[Len(crew.trace)].ev = "raise"
    /\ crew.trace[Len(crew.trace)].kind \in kinds

\* the results were returned to the caller with completed_at and
\* duration_seconds set
ResultsReturned ==
    /\ crew.pc = "returned"
    /\ {"completed_at", "duration_seconds"} \subseteq DOMAIN crew.results
    /\ crew.results.duration_seconds >= 0
    /\ last.op = "run_full_analysis"
    /\ last.results = crew.results

\* a run without a raise generated one report per type asked for, in order
AllReportsInOrder ==
    (crew.pc = "returned" /\ ~EndedByRaise(RaiseKinds)) =>
        /\ ResultsReturned
        /\ "error" \notin DOMAIN crew.results
        /\ Len(PhaseCalls) = Len(PhaseOrder)
        /\ Len(crew.results.reports_generated) = Len(PhaseOrder) - 3
        /\ \A k \in 1..Len(crew.results.reports_generated) :
              crew.results.reports_generated[k].type = RequestedTypes[k]

\* C28 as stated: the phases run strictly in order, each starting only after
\* the one before returned; if any phase raises, no later phase runs, results
\* carry an "error" entry, completed_at and duration_seconds are set and the
\* results are returned without the exception propagating.
C28_AnyRaiseIsReturned ==
    crew.pc # "idle" =>
        /\ PhasesInOrder
        /\ AllReportsInOrder
        /\ EndedByRaise(RaiseKinds) =>
              (ResultsReturned /\ "error" \in DOMAIN crew.results)

\* C28, amended: as above for a phase that raises an Exception; a raise that is
\* not an Exception (asyncio.CancelledError, KeyboardInterrupt) is not caught:
\* no later phase runs, and it leaves run_full_analysis with nothing returned.
C28_ExceptionIsReturned ==
    crew.pc # "idle" =>
        /\ PhasesInOrder
        /\ AllReportsInOrder
        /\ EndedByRaise({"Exception"}) =>
              (ResultsReturned /\ "error" \in DOMAIN crew.results)
        /\ EndedByRaise(RaiseKinds \ {"Exception"}) =>
              /\ crew.pc = "propagated"
              /\ "completed_at" \notin DOMAIN crew.results
              /\ "error" \notin DOMAIN crew.results

\* the second of two reports raised an Exception an hour into the run: the
\* first report is kept, the error recorded and the results returned
C28_Witness ==
    /\ crew.pc = "returned"
    /\ EndedByRaise({"Exception"})
    /\ crew.trace[Len(crew.trace)].phase = "report_generation:gap_analysis"
    /\ Len(PhaseCalls) = 5
    /\ Len(crew.results.reports_generated) = 1
    /\ crew.results.reports_generated[1].type = "regulatory_briefing"
    /\ "error" \in DOMAIN crew.results
    /\ "report_generation" \notin DOMAIN crew.results.phases
    /\ crew.results.duration_seconds = 3600

=============================================================================
